---------------------------- MODULE Spec2Model ----------------------------
(***************************************************************************)
(* A model of the algorithm demonstrations of algorithms-unlocked:         *)
(* the sorts of sort/sort.cpp, the searches of search/search.cpp, the LCS  *)
(* table of strings/lcs.cpp and the transform table of the transform       *)
(* program.  Arrays and strings are functions over 0..n-1, as in the C++   *)
(* source, so that every index of the model is the index of the code.      *)
(***************************************************************************)
EXTENDS Integers, Sequences, FiniteSets, TLC

VARIABLES
    op,         \* the function most recently called ("init" before any call)
    input,      \* the arguments of that call
    output,     \* what the call returned (or the fault it ended in)
    pc,         \* position of the transform program's main
    X,          \* main: the source string
    Y,          \* main: the target string
    Z,          \* main: the transformed string of the last iteration
    repeats,    \* main: repeat_count
    iter,       \* main: the loop counter i
    dummy_val,  \* main: the accumulated checksum
    status      \* main: exit status ("running", "EXIT_SUCCESS", "EXIT_FAILURE")

vars == <<op, input, output, pc, X, Y, Z, repeats, iter, dummy_val, status>>

callVars == <<op, input, output>>
mainVars == <<pc, X, Y, Z, repeats, iter, dummy_val, status>>

-----------------------------------------------------------------------------
(* Bounds of the model *)

\* Width in bits of the modelled int
IntBits == 2
\* Longest array given to a sort
MaxArrLen == 4
\* Longest array given to a search
MaxSearchLen == 3
\* Largest value held by a searched array (the values are 0..MaxSearchVal)
MaxSearchVal == 2
\* Longest string given to the LCS table
MaxStrLen == 3
\* Longest string given to the transform tables
MaxTransLen == 2
\* Number of distinct characters the strings are drawn from
NumChars == 2
\* Largest repeat_count given to the transform and sort programs
MaxRepeats == 2
\* Largest array_size given to the sort program
MaxMainArr == 2
\* Longest string of a table whose construction is followed write by write
MaxFillLen == 2
\* Largest string_length given to the LCS programs
MaxMainStr == 3
\* Width in bits of the modelled long
LongBits == 4
\* Largest value of a command-line argument of modexp
MaxArg == 3

-----------------------------------------------------------------------------
(* Machine integers and arrays *)

Pow2(k) == IF k = 0 THEN 1 ELSE IF k = 1 THEN 2 ELSE IF k = 2 THEN 4
           ELSE IF k = 3 THEN 8 ELSE IF k = 4 THEN 16 ELSE 32

INT_MAX == Pow2(IntBits - 1) - 1
INT_MIN == 0 - Pow2(IntBits - 1)

\* Every value of the modelled int
Ints == INT_MIN..INT_MAX

\* The vectors of n ints, indexed 0..n-1
Vectors(n) == [0..(n - 1) -> Ints]

\* The vectors of at most MaxArrLen ints
AllVectors == UNION {Vectors(n) : n \in 0..MaxArrLen}

\* std::vector::size
Size(A) == Cardinality(DOMAIN A)

\* operator[] of a vector: a read outside the allocation is undefined and
\* yields whatever the memory holds, here the value junk
At(A, i, junk) == IF i \in DOMAIN A THEN A[i] ELSE junk

-----------------------------------------------------------------------------
(* sort/sort.cpp *)

\* The inner loop of selection_sort: for (j = i+1; j < n; j++)
RECURSIVE selection_inner(_, _, _, _)
selection_inner(A, n, j, smallest) ==
    IF j < n
    THEN selection_inner(A, n, j + 1, IF A[j] < A[smallest] THEN j ELSE smallest)
    ELSE smallest

\* The outer loop of selection_sort: for (i = 0; i < n; i++)
RECURSIVE selection_outer(_, _, _)
selection_outer(A, n, i) ==
    IF i < n
    THEN LET smallest == selection_inner(A, n, i + 1, i)
         IN  selection_outer([A EXCEPT ![i] = A[smallest]], n, i + 1)
    ELSE A

selection_sort(A, n) == selection_outer(A, n, 0)

\* insertion_guard stopping one element short: j > 0 for j >= 0
insertion_guard_first_skipped(A, j, key) == j > 0 /\ A[j] > key

\* The guard of the while loop of insertion_sort
insertion_guard(A, j, key) == j >= 0 /\ A[j] > key

\* The while loop of insertion_sort; yields the array and the final j
RECURSIVE insertion_while(_, _, _)
insertion_while(A, j, key) ==
    IF insertion_guard(A, j, key)
    THEN insertion_while([A EXCEPT ![j + 1] = A[j]], j - 1, key)
    ELSE [A |-> A, j |-> j]

\* The for loop of insertion_sort: for (i = 1; i < n; i++)
RECURSIVE insertion_for(_, _, _)
insertion_for(A, n, i) ==
    IF i < n
    THEN LET key == A[i]
             w   == insertion_while(A, i - 1, key)
         IN  insertion_for([w.A EXCEPT ![w.j + 1] = key], n, i + 1)
    ELSE A

insertion_sort(A, n) == insertion_for(A, n, 1)

\* The merge loop: for (k = p; k <= r; k++).  oob records a read of B or C
\* outside its n1+1 (n2+1) elements, which yields junk.
RECURSIVE merge_loop(_, _, _, _, _, _, _, _, _)
merge_loop(A, B, C, i, j, k, r, junk, oob) ==
    IF k <= r
    THEN LET b == At(B, i, junk)
             c == At(C, j, junk)
             o == oob \/ i \notin DOMAIN B \/ j \notin DOMAIN C
         IN  IF b <= c
             THEN merge_loop([A EXCEPT ![k] = b], B, C, i + 1, j, k + 1, r, junk, o)
             ELSE merge_loop([A EXCEPT ![k] = c], B, C, i, j + 1, k + 1, r, junk, o)
    ELSE [A |-> A, oob |-> oob]

\* merge(A, p, q, r): B = A[p..q] and C = A[q+1..r], each ended by INT_MAX
merge(A, p, q, r, junk) ==
    LET n1 == q - p + 1
        n2 == r - q
        B  == [x \in 0..n1 |-> IF x < n1 THEN A[p + x] ELSE INT_MAX]
        C  == [x \in 0..n2 |-> IF x < n2 THEN A[q + 1 + x] ELSE INT_MAX]
    IN  merge_loop(A, B, C, 0, 0, p, r, junk, FALSE)

\* merge_sort(A, p, r); the result carries the array and whether any merge
\* read outside its buffers
RECURSIVE merge_sort(_, _, _, _)
merge_sort(A, p, r, junk) ==
    IF p >= r
    THEN [A |-> A, oob |-> FALSE]
    ELSE LET q  == (p + r) \div 2
             s1 == merge_sort(A, p, q, junk)
             s2 == merge_sort(s1.A, q + 1, r, junk)
             m  == merge(s2.A, p, q, r, junk)
         IN  [A |-> m.A, oob |-> s1.oob \/ s2.oob \/ m.oob]

-----------------------------------------------------------------------------
(* The sort programs as calls on a fresh array *)

InitMain ==
    /\ pc = "idle"
    /\ X = <<>>
    /\ Y = <<>>
    /\ Z = <<>>
    /\ repeats = 0
    /\ iter = 0
    /\ dummy_val = 0
    /\ status = "running"

InitCall ==
    /\ op = "init"
    /\ input = <<>>
    /\ output = <<>>

Init == InitCall /\ InitMain

CallSelectionSort ==
    /\ op = "init"
    /\ \E A \in AllVectors :
          /\ op' = "selection_sort"
          /\ input' = [A |-> A, n |-> Size(A)]
          /\ output' = [fault |-> FALSE, A |-> selection_sort(A, Size(A))]
    /\ UNCHANGED mainVars

CallInsertionSort ==
    /\ op = "init"
    /\ \E A \in AllVectors :
          /\ op' = "insertion_sort"
          /\ input' = [A |-> A, n |-> Size(A)]
          /\ output' = [fault |-> FALSE, A |-> insertion_sort(A, Size(A))]
    /\ UNCHANGED mainVars

\* merge_sort(arr, 0, array_size-1).  A read outside a buffer is undefined:
\* the call either goes on with the value found there or faults.
CallMergeSort ==
    /\ op = "init"
    /\ \E A \in AllVectors, junk \in Ints, faults \in BOOLEAN :
          LET s == merge_sort(A, 0, Size(A) - 1, junk)
          IN  /\ faults => s.oob
              /\ op' = "merge_sort"
              /\ input' = [A |-> A, n |-> Size(A)]
              /\ output' = IF faults
                           THEN [fault |-> TRUE, A |-> <<>>, oob |-> TRUE]
                           ELSE [fault |-> FALSE, A |-> s.A, oob |-> s.oob]
    /\ UNCHANGED mainVars

NextSort ==
    \/ CallSelectionSort
    \/ CallInsertionSort
    \/ CallMergeSort

SpecSort == Init /\ [][NextSort]_vars

-----------------------------------------------------------------------------
(* What a sort must deliver *)

\* The number of times v occurs in A
Occurrences(A, v) == Cardinality({k \in DOMAIN A : A[k] = v})

\* B holds the same multiset of values as A
IsPermutation(A, B) ==
    /\ DOMAIN A = DOMAIN B
    /\ \A v \in Ints : Occurrences(A, v) = Occurrences(B, v)

\* A is monotonically non-decreasing
IsSorted(A) == \A k \in DOMAIN A : (k + 1) \in DOMAIN A => A[k] <= A[k + 1]

\* C3: after selection_sort(A, n) the array is a permutation of the original
\* A and is monotonically non-decreasing.
C3_SelectionSortPermutationSorted ==
    op = "selection_sort" =>
        /\ ~output.fault
        /\ IsPermutation(input.A, output.A)
        /\ IsSorted(output.A)

\* C4: after insertion_sort(A, n) the array is a permutation of the original
\* A and is monotonically non-decreasing.
C4_InsertionSortPermutationSorted ==
    op = "insertion_sort" =>
        /\ ~output.fault
        /\ IsPermutation(input.A, output.A)
        /\ IsSorted(output.A)

\* An insertion sort that had to move elements: the input was not sorted
C4_Witness ==
    /\ op = "insertion_sort"
    /\ input.n = MaxArrLen
    /\ ~IsSorted(input.A)
    /\ input.A[0] > input.A[1]
    /\ IsSorted(output.A)

\* C5: after merge_sort(A, 0, n-1) the array is a permutation of the original
\* A and is monotonically non-decreasing, for values up to and including the
\* sentinel INT_MAX.
C5_MergeSortPermutationSorted ==
    op = "merge_sort" =>
        /\ ~output.fault
        /\ IsPermutation(input.A, output.A)
        /\ IsSorted(output.A)

-----------------------------------------------------------------------------
(* search/search.cpp (chapter_02/search.cpp holds the same three linear
   searches) *)

\* linear_found keeping the first match instead of the latest
linear_found_keeps_first(answer, i) == IF answer = -1 THEN i ELSE answer

\* The assignment of linear_search on a match: answer = i
linear_found(answer, i) == i

\* The loop of linear_search: for (i = 0; i < n; i++)
RECURSIVE linear_loop(_, _, _, _, _)
linear_loop(A, n, x, i, answer) ==
    IF i < n
    THEN linear_loop(A, n, x, i + 1,
                     IF A[i] = x THEN linear_found(answer, i) ELSE answer)
    ELSE answer

linear_search(A, n, x) == linear_loop(A, n, x, 0, -1)

\* The loop of better_linear_search, which returns at the first match
RECURSIVE better_loop(_, _, _, _)
better_loop(A, n, x, i) ==
    IF i < n
    THEN IF A[i] = x THEN i ELSE better_loop(A, n, x, i + 1)
    ELSE -1

better_linear_search(A, n, x) == better_loop(A, n, x, 0)

\* while (A[i] != x) {i++;} of sentinel_linear_search; A holds x at n-1
RECURSIVE sentinel_while(_, _, _)
sentinel_while(A, x, i) ==
    IF A[i] # x THEN sentinel_while(A, x, i + 1) ELSE i

\* The last element left holding the search value
sentinel_restore_skipped(A, n, last) == A

\* restore last element of A: A[n-1] = last
sentinel_restore(A, n, last) == [A EXCEPT ![n - 1] = last]

\* sentinel_linear_search on a copy of A.  With n = 0 the accesses A[n-1] and
\* A[i] are outside the vector, which is undefined: ub is set and nothing is
\* computed.  A is the working copy at the return.
sentinel_linear_search(A, n, x) ==
    IF n - 1 \notin DOMAIN A
    THEN [ub |-> TRUE, ret |-> -1, A |-> A]
    ELSE LET last == A[n - 1]
             A1   == [A EXCEPT ![n - 1] = x]
             i    == sentinel_while(A1, x, 0)
             A2   == sentinel_restore(A1, n, last)
         IN  [ub  |-> FALSE,
              ret |-> IF (i < n - 1) \/ A2[n - 1] = x THEN i ELSE -1,
              A   |-> A2]

RECURSIVE recursive_linear_search(_, _, _, _)
recursive_linear_search(A, n, i, x) ==
    IF i > n - 1
    THEN -1
    ELSE IF A[i] = x
         THEN i
         ELSE recursive_linear_search(A, n, i + 1, x)

\* binary_guard leaving the range of one element unsearched: p < r
binary_guard_strict(p, r) == p < r

\* The guard of the loop of binary_search: while (p <= r)
binary_guard(p, r) == p <= r

\* The loop of binary_search
RECURSIVE binary_while(_, _, _, _)
binary_while(A, x, p, r) ==
    IF binary_guard(p, r)
    THEN LET q == (p + r) \div 2
         IN  IF A[q] = x
             THEN q
             ELSE IF A[q] > x
                  THEN binary_while(A, x, p, q - 1)
                  ELSE binary_while(A, x, q + 1, r)
    ELSE -1

binary_search(A, n, x) == binary_while(A, x, 0, n - 1)

RECURSIVE recursive_binary_search(_, _, _, _)
recursive_binary_search(A, p, r, x) ==
    IF p > r
    THEN -1
    ELSE LET q == (p + r) \div 2
         IN  IF A[q] = x
             THEN q
             ELSE IF A[q] > x
                  THEN recursive_binary_search(A, p, q - 1, x)
                  ELSE recursive_binary_search(A, q + 1, r, x)

-----------------------------------------------------------------------------
(* The search program as calls on an array and a search value *)

\* The values of a searched array and of the search value
SearchVals == 0..MaxSearchVal

\* The caller's array after a call whose parameter std::vector<int> A is
\* passed by value: the function works on a copy, which ends as working
caller_array(arr, working) == arr

\* The arrays given to a search
SearchVectors == UNION {[0..(n - 1) -> SearchVals] : n \in 0..MaxSearchLen}

CallLinearSearch ==
    /\ op = "init"
    /\ \E A \in SearchVectors, x \in SearchVals :
          /\ op' = "linear_search"
          /\ input' = [A |-> A, n |-> Size(A), x |-> x]
          /\ output' = [fault |-> FALSE, ret |-> linear_search(A, Size(A), x),
                        A |-> A, arr |-> caller_array(A, A)]
    /\ UNCHANGED mainVars

CallBetterLinearSearch ==
    /\ op = "init"
    /\ \E A \in SearchVectors, x \in SearchVals :
          /\ op' = "better_linear_search"
          /\ input' = [A |-> A, n |-> Size(A), x |-> x]
          /\ output' = [fault |-> FALSE,
                        ret |-> better_linear_search(A, Size(A), x),
                        A |-> A, arr |-> caller_array(A, A)]
    /\ UNCHANGED mainVars

\* The undefined accesses of an empty array end in a fault or in any return
\* value.
CallSentinelLinearSearch ==
    /\ op = "init"
    /\ \E A \in SearchVectors, x \in SearchVals,
          faults \in BOOLEAN, any \in -1..MaxSearchLen :
          LET s == sentinel_linear_search(A, Size(A), x)
          IN  /\ ~s.ub => (~faults /\ any = s.ret)
              /\ faults => any = -1
              /\ op' = "sentinel_linear_search"
              /\ input' = [A |-> A, n |-> Size(A), x |-> x]
              /\ output' = [fault |-> faults, ret |-> any,
                            A |-> s.A, arr |-> caller_array(A, s.A)]
    /\ UNCHANGED mainVars

CallRecursiveLinearSearch ==
    /\ op = "init"
    /\ \E A \in SearchVectors, x \in SearchVals :
          /\ op' = "recursive_linear_search"
          /\ input' = [A |-> A, n |-> Size(A), x |-> x]
          /\ output' = [fault |-> FALSE,
                        ret |-> recursive_linear_search(A, Size(A), 0, x),
                        A |-> A, arr |-> caller_array(A, A)]
    /\ UNCHANGED mainVars

CallBinarySearch ==
    /\ op = "init"
    /\ \E A \in SearchVectors, x \in SearchVals :
          /\ \A k \in DOMAIN A : (k + 1) \in DOMAIN A => A[k] <= A[k + 1]
          /\ op' = "binary_search"
          /\ input' = [A |-> A, n |-> Size(A), x |-> x]
          /\ output' = [fault |-> FALSE, ret |-> binary_search(A, Size(A), x),
                        A |-> A, arr |-> caller_array(A, A)]
    /\ UNCHANGED mainVars

CallRecursiveBinarySearch ==
    /\ op = "init"
    /\ \E A \in SearchVectors, x \in SearchVals :
          /\ \A k \in DOMAIN A : (k + 1) \in DOMAIN A => A[k] <= A[k + 1]
          /\ op' = "recursive_binary_search"
          /\ input' = [A |-> A, n |-> Size(A), x |-> x]
          /\ output' = [fault |-> FALSE,
                        ret |-> recursive_binary_search(A, 0, Size(A) - 1, x),
                        A |-> A, arr |-> caller_array(A, A)]
    /\ UNCHANGED mainVars

NextSearch ==
    \/ CallLinearSearch
    \/ CallBetterLinearSearch
    \/ CallSentinelLinearSearch
    \/ CallRecursiveLinearSearch
    \/ CallBinarySearch
    \/ CallRecursiveBinarySearch

SpecSearch == Init /\ [][NextSearch]_vars

-----------------------------------------------------------------------------
(* What a search must deliver *)

LinearSearches == {"linear_search", "better_linear_search",
                   "sentinel_linear_search", "recursive_linear_search"}

BinarySearches == {"binary_search", "recursive_binary_search"}

\* The indices of A that hold x
IndicesOf(A, x) == {k \in DOMAIN A : A[k] = x}

SetMin(S) == CHOOSE m \in S : \A k \in S : m <= k
SetMax(S) == CHOOSE m \in S : \A k \in S : m >= k

\* ret is a right answer of a search for x in A
RightAnswer(A, n, x, ret) ==
    /\ (ret = -1) <=> (IndicesOf(A, x) = {})
    /\ (ret # -1) => (ret \in 0..(n - 1) /\ A[ret] = x)

\* C6: on arrays of any length n >= 0 each of the four linear searches
\* returns -1 exactly when x does not occur in A and otherwise an index in
\* 0..n-1 that holds x, so the four agree on found against not found.
C6_LinearSearchesAgree ==
    op \in LinearSearches =>
        /\ ~output.fault
        /\ RightAnswer(input.A, input.n, input.x, output.ret)

\* C7: where x occurs in A, linear_search returns the largest index holding
\* x and the other three linear searches the smallest; where x occurs once
\* the four return the same index.
C7_LastAgainstFirst ==
    (op \in LinearSearches /\ IndicesOf(input.A, input.x) # {}) =>
        /\ ~output.fault
        /\ (op = "linear_search") =>
               output.ret = SetMax(IndicesOf(input.A, input.x))
        /\ (op # "linear_search") =>
               output.ret = SetMin(IndicesOf(input.A, input.x))
        /\ (Cardinality(IndicesOf(input.A, input.x)) = 1) =>
               /\ output.ret = linear_search(input.A, input.n, input.x)
               /\ output.ret = better_linear_search(input.A, input.n, input.x)
               /\ output.ret = sentinel_linear_search(input.A, input.n, input.x).ret
               /\ output.ret = recursive_linear_search(input.A, input.n, 0, input.x)

\* linear_search on an array that holds x more than once, at its first and
\* its last element among others
C7_Witness ==
    /\ op = "linear_search"
    /\ Cardinality(IndicesOf(input.A, input.x)) > 1
    /\ output.ret = input.n - 1
    /\ better_linear_search(input.A, input.n, input.x) = 0

\* C8: on an array sorted ascending, binary_search and
\* recursive_binary_search return an index holding x when x is present and -1
\* when it is absent, and -1 only when no index holds x.
C8_BinarySearchesRight ==
    op \in BinarySearches =>
        /\ ~output.fault
        /\ RightAnswer(input.A, input.n, input.x, output.ret)
        /\ (output.ret = -1) => (\A k \in 0..(input.n - 1) : input.A[k] # input.x)

\* binary_search finding x at the last index of a full-length array
C8_Witness ==
    /\ op = "binary_search"
    /\ input.n = MaxSearchLen
    /\ output.ret = input.n - 1
    /\ input.A[output.ret] = input.x

-----------------------------------------------------------------------------
(* strings/lcs.cpp: the LCS table and its LCS *)

\* The characters of the strings, numbered from 1
Chars == 1..NumChars

\* The strings of n characters, indexed 0..n-1
Strings(n) == [0..(n - 1) -> Chars]

\* The strings of at most MaxStrLen characters
AllStrings == UNION {Strings(n) : n \in 0..MaxStrLen}

\* std::string::push_back, and operator+ of a string and a character
push_back(s, c) == [k \in 0..Size(s) |-> IF k < Size(s) THEN s[k] ELSE c]

\* std::max
max(a, b) == IF a < b THEN b ELSE a

\* LCSTable::coord and TransformTable::coord
coord(t, i, j) == j + i * t.width

\* The cell that extends a match from the cell to the left instead of the
\* diagonal one
lcs_cell_from_left(t, i, j) ==
    IF t.X[i - 1] = t.Y[j - 1]
    THEN t.table[coord(t, i, j - 1)] + 1
    ELSE max(t.table[coord(t, i - 1, j)], t.table[coord(t, i, j - 1)])

\* The cell with min for max: the shorter of the two neighbours
lcs_cell_min(t, i, j) ==
    IF t.X[i - 1] = t.Y[j - 1]
    THEN t.table[coord(t, i - 1, j - 1)] + 1
    ELSE IF t.table[coord(t, i - 1, j)] < t.table[coord(t, i, j - 1)]
         THEN t.table[coord(t, i - 1, j)]
         ELSE t.table[coord(t, i, j - 1)]

\* The value compute_lcs_table gives the inner cell (i, j)
lcs_cell(t, i, j) ==
    IF t.X[i - 1] = t.Y[j - 1]
    THEN t.table[coord(t, i - 1, j - 1)] + 1
    ELSE max(t.table[coord(t, i - 1, j)], t.table[coord(t, i, j - 1)])

\* for (i = 0; i < height; i++) table[coord(i, 0)] = 0
RECURSIVE lcs_zero_column(_, _)
lcs_zero_column(t, i) ==
    IF i < t.height
    THEN lcs_zero_column([t EXCEPT !.table[coord(t, i, 0)] = 0], i + 1)
    ELSE t

\* for (j = 0; j < width; j++) table[coord(0, j)] = 0
RECURSIVE lcs_zero_row(_, _)
lcs_zero_row(t, j) ==
    IF j < t.width
    THEN lcs_zero_row([t EXCEPT !.table[coord(t, 0, j)] = 0], j + 1)
    ELSE t

\* for (j = 1; j < width; j++) of row i
RECURSIVE lcs_inner(_, _, _)
lcs_inner(t, i, j) ==
    IF j < t.width
    THEN lcs_inner([t EXCEPT !.table[coord(t, i, j)] = lcs_cell(t, i, j)], i, j + 1)
    ELSE t

\* for (i = 1; i < height; i++)
RECURSIVE lcs_outer(_, _)
lcs_outer(t, i) ==
    IF i < t.height
    THEN lcs_outer(lcs_inner(t, i, 1), i + 1)
    ELSE t

compute_lcs_table(t) == lcs_outer(lcs_zero_row(lcs_zero_column(t, 0), 0), 1)

\* The constructor: copies of the strings, height, width, a zeroed vector of
\* height * width ints, and then compute_lcs_table
LCSTable(str_x, str_y) ==
    LET height == Size(str_x) + 1
        width  == Size(str_y) + 1
    IN  compute_lcs_table([height |-> height, width |-> width,
                           X |-> str_x, Y |-> str_y,
                           table |-> [k \in 0..(height * width - 1) |-> 0]])

\* The walk taking the smaller neighbour: < for >
lcs_goes_left_reversed(t, i, j) ==
    t.table[coord(t, i, j - 1)] < t.table[coord(t, i - 1, j)]

\* The walk going back along the row on equal neighbours too: >= for >
lcs_goes_left_on_ties(t, i, j) ==
    t.table[coord(t, i, j - 1)] >= t.table[coord(t, i - 1, j)]

\* The third test of assemble_lcs: work back along the row
lcs_goes_left(t, i, j) ==
    t.table[coord(t, i, j - 1)] > t.table[coord(t, i - 1, j)]

RECURSIVE assemble_lcs(_, _, _)
assemble_lcs(t, i, j) ==
    IF t.table[coord(t, i, j)] = 0
    THEN <<>>
    ELSE IF t.X[i - 1] = t.Y[j - 1]
         THEN push_back(assemble_lcs(t, i - 1, j - 1), t.X[i - 1])
         ELSE IF lcs_goes_left(t, i, j)
              THEN assemble_lcs(t, i, j - 1)
              ELSE assemble_lcs(t, i - 1, j)

\* The cells assemble_lcs(t, i, j) is called on, the first call first: the
\* recursion of assemble_lcs with the cell recorded at each call
RECURSIVE assemble_lcs_path(_, _, _)
assemble_lcs_path(t, i, j) ==
    IF t.table[coord(t, i, j)] = 0
    THEN << <<i, j>> >>
    ELSE IF t.X[i - 1] = t.Y[j - 1]
         THEN << <<i, j>> >> \o assemble_lcs_path(t, i - 1, j - 1)
         ELSE IF lcs_goes_left(t, i, j)
              THEN << <<i, j>> >> \o assemble_lcs_path(t, i, j - 1)
              ELSE << <<i, j>> >> \o assemble_lcs_path(t, i - 1, j)

\* assemble_lcs(t, i, j) with what it reads: table, the flat indices of the
\* table elements read; strings, the indices of X and Y read; border, the
\* cells of row 0 or column 0 from which a neighbour was read
RECURSIVE assemble_lcs_reads(_, _, _, _)
assemble_lcs_reads(t, i, j, junk) ==
    LET here == {coord(t, i, j)}
        both == {coord(t, i, j - 1), coord(t, i - 1, j)}
        edge == IF i = 0 \/ j = 0 THEN {<<i, j>>} ELSE {}
        more(r, table, border) ==
            [table |-> r.table \cup table, strings |-> r.strings \cup {i - 1, j - 1},
             border |-> r.border \cup border]
    IN  IF At(t.table, coord(t, i, j), junk) = 0
        THEN [table |-> here, strings |-> {}, border |-> {}]
        ELSE IF At(t.X, i - 1, junk) = At(t.Y, j - 1, junk)
             THEN more(assemble_lcs_reads(t, i - 1, j - 1, junk), here, {})
             ELSE IF At(t.table, coord(t, i, j - 1), junk)
                        > At(t.table, coord(t, i - 1, j), junk)
                  THEN more(assemble_lcs_reads(t, i, j - 1, junk), here \cup both, edge)
                  ELSE more(assemble_lcs_reads(t, i - 1, j, junk), here \cup both, edge)

\* compute_lcs_table(X, Y) of the older program: the same three loops on a
\* local vector l of (m+1) * (n+1) ints with the strides written out
compute_lcs_table_l(str_x, str_y) == LCSTable(str_x, str_y).table

\* assemble_lcs(X, Y, l, i, j) of the older program, with what it reads (as
\* assemble_lcs_reads).  The element and its two neighbours are read before
\* any test
RECURSIVE assemble_lcs_l(_, _, _, _, _, _)
assemble_lcs_l(str_x, str_y, l, i, j, junk) ==
    LET height == Size(str_x) + 1
        width  == Size(str_y) + 1
        element      == At(l, j + i * width, junk)
        element_i_mj == At(l, (j - 1) + i * width, junk)
        element_mi_j == At(l, j + (i - 1) * width, junk)
        read == {j + i * width, (j - 1) + i * width, j + (i - 1) * width}
        edge == IF i = 0 \/ j = 0 THEN {<<i, j>>} ELSE {}
        more(r, c) ==
            [lcs |-> IF c THEN push_back(r.lcs, str_x[i - 1]) ELSE r.lcs,
             table |-> r.table \cup read, strings |-> r.strings \cup {i - 1, j - 1},
             border |-> r.border \cup edge]
    IN  IF element = 0
        THEN [lcs |-> <<>>, table |-> read, strings |-> {}, border |-> edge]
        ELSE IF At(str_x, i - 1, junk) = At(str_y, j - 1, junk)
             THEN more(assemble_lcs_l(str_x, str_y, l, i - 1, j - 1, junk), TRUE)
             ELSE IF element_i_mj > element_mi_j
                  THEN more(assemble_lcs_l(str_x, str_y, l, i, j - 1, junk), FALSE)
                  ELSE more(assemble_lcs_l(str_x, str_y, l, i - 1, j, junk), FALSE)

\* A string literal of the source as a string indexed from 0
Text(chars) == [k \in 0..(Len(chars) - 1) |-> chars[k + 1]]

-----------------------------------------------------------------------------
(* The LCS program as calls on two strings *)

CallLCSTable ==
    /\ op = "init"
    /\ \E str_x \in AllStrings, str_y \in AllStrings :
          /\ op' = "LCSTable"
          /\ input' = [X |-> str_x, Y |-> str_y]
          /\ output' = LCSTable(str_x, str_y)
    /\ UNCHANGED mainVars

CallAssembleLcs ==
    /\ op = "init"
    /\ \E str_x \in AllStrings, str_y \in AllStrings :
          LET t == LCSTable(str_x, str_y)
          IN  /\ op' = "assemble_lcs"
              /\ input' = [t |-> t, i |-> Size(str_x), j |-> Size(str_y)]
              /\ output' = [lcs  |-> assemble_lcs(t, Size(str_x), Size(str_y)),
                            path |-> assemble_lcs_path(t, Size(str_x), Size(str_y)),
                            reads |-> assemble_lcs_reads(t, Size(str_x), Size(str_y), 0)]
    /\ UNCHANGED mainVars

\* The body of the loop of the older program on any two strings.  A read
\* outside l is undefined: the call either goes on with the value found
\* there or faults
CallAssembleLcsL ==
    /\ op = "init"
    /\ \E str_x \in AllStrings, str_y \in AllStrings, junk \in 0..1, faults \in BOOLEAN :
          LET l == compute_lcs_table_l(str_x, str_y)
              r == assemble_lcs_l(str_x, str_y, l, Size(str_x), Size(str_y), junk)
          IN  /\ faults => ~(r.table \subseteq DOMAIN l)
              /\ op' = "assemble_lcs_l"
              /\ input' = [X |-> str_x, Y |-> str_y, l |-> l,
                           i |-> Size(str_x), j |-> Size(str_y)]
              /\ output' = [fault |-> faults,
                            lcs |-> IF faults THEN <<>> ELSE r.lcs,
                            reads |-> [table |-> r.table, strings |-> r.strings,
                                       border |-> r.border]]
    /\ UNCHANGED mainVars

\* The program on the strings of the book, as strings.cpp runs it: the table
\* and the LCS of X = "CATCGA" and Y = "GTACCGTCA"
CallBookLcs ==
    /\ op = "init"
    /\ LET str_x == Text(<<"C", "A", "T", "C", "G", "A">>)
           str_y == Text(<<"G", "T", "A", "C", "C", "G", "T", "C", "A">>)
           t     == LCSTable(str_x, str_y)
       IN  /\ op' = "book_lcs"
           /\ input' = [X |-> str_x, Y |-> str_y]
           /\ output' = [t |-> t, lcs |-> assemble_lcs(t, Size(str_x), Size(str_y))]
    /\ UNCHANGED mainVars

NextLCS ==
    \/ CallLCSTable
    \/ CallAssembleLcs
    \/ CallAssembleLcsL
    \/ CallBookLcs

SpecLCS == Init /\ [][NextLCS]_vars

-----------------------------------------------------------------------------
(* What the LCS table and its LCS must deliver *)

\* The first i characters of s
Prefix(s, i) == [k \in 0..(i - 1) |-> s[k]]

\* The characters of s at the indices in S, in order
RECURSIVE PickFrom(_, _, _, _)
PickFrom(s, S, k, acc) ==
    IF k >= Size(s)
    THEN acc
    ELSE PickFrom(s, S, k + 1, IF k \in S THEN push_back(acc, s[k]) ELSE acc)

\* Every subsequence of s
Subsequences(s) == {PickFrom(s, S, 0, <<>>) : S \in SUBSET DOMAIN s}

IsSubsequence(u, s) == u \in Subsequences(s)

\* The length of a longest common subsequence of x and y
LCSLength(x, y) ==
    LET lens == {Size(u) : u \in Subsequences(x) \cap Subsequences(y)}
    IN  CHOOSE l \in lens : \A k \in lens : k <= l

\* C9: after the construction of the LCS table every cell table[i][j] is the
\* length of a longest common subsequence of the first i characters of X and
\* the first j characters of Y; row 0 and column 0 are zero.
C9_TableHoldsLCSLengths ==
    op = "LCSTable" =>
        /\ output.height = Size(input.X) + 1
        /\ output.width = Size(input.Y) + 1
        /\ \A i \in 0..Size(input.X), j \in 0..Size(input.Y) :
              /\ output.table[coord(output, i, j)]
                    = LCSLength(Prefix(input.X, i), Prefix(input.Y, j))
              /\ (i = 0 \/ j = 0) => output.table[coord(output, i, j)] = 0

\* A table of two different full-length strings whose LCS is shorter than
\* either and longer than one character
C9_Witness ==
    /\ op = "LCSTable"
    /\ Size(input.X) = MaxStrLen
    /\ Size(input.Y) = MaxStrLen
    /\ input.X # input.Y
    /\ output.table[coord(output, MaxStrLen, MaxStrLen)] = MaxStrLen - 1
    /\ output.table[coord(output, 1, 1)] = 0

\* C10: assemble_lcs(t, |X|, |Y|) is a subsequence of X and of Y whose
\* length is t.table[|X|][|Y|], so it is a longest common subsequence.
C10_AssembledIsLongestCommon ==
    op = "assemble_lcs" =>
        /\ IsSubsequence(output.lcs, input.t.X)
        /\ IsSubsequence(output.lcs, input.t.Y)
        /\ Size(output.lcs) = input.t.table[coord(input.t, input.i, input.j)]
        /\ Size(output.lcs) = LCSLength(input.t.X, input.t.Y)

\* An LCS assembled through a step back along the row: the last characters
\* differ and the left neighbour is the larger
C10_Witness ==
    /\ op = "assemble_lcs"
    /\ input.i > 0
    /\ input.j > 0
    /\ input.t.X[input.i - 1] # input.t.Y[input.j - 1]
    /\ lcs_goes_left(input.t, input.i, input.j)
    /\ Size(output.lcs) >= 2

\* The LCS table printed in the documentation of LCSTable, row by row
DocumentedTable ==
    << <<0, 0, 0, 0, 0, 0, 0, 0, 0, 0>>,
       <<0, 0, 0, 0, 1, 1, 1, 1, 1, 1>>,
       <<0, 0, 0, 1, 1, 1, 1, 1, 1, 2>>,
       <<0, 0, 1, 1, 1, 1, 1, 2, 2, 2>>,
       <<0, 0, 1, 1, 2, 2, 2, 2, 3, 3>>,
       <<0, 1, 1, 1, 2, 2, 3, 3, 3, 3>>,
       <<0, 1, 1, 2, 2, 2, 3, 3, 3, 4>> >>

\* C11: for X = "CATCGA" and Y = "GTACCGTCA" the table has table[6][9] = 4
\* and is the 7 x 10 table of the documentation, and assemble_lcs returns
\* "CTCA".
C11_BookExample ==
    op = "book_lcs" =>
        /\ output.t.height = 7
        /\ output.t.width = 10
        /\ output.t.table[coord(output.t, 6, 9)] = 4
        /\ \A i \in 0..6, j \in 0..9 :
              output.t.table[coord(output.t, i, j)] = DocumentedTable[i + 1][j + 1]
        /\ output.lcs = Text(<<"C", "T", "C", "A">>)

\* The book's strings have been run and an LCS of four characters assembled
C11_Witness ==
    /\ op = "book_lcs"
    /\ input.X = Text(<<"C", "A", "T", "C", "G", "A">>)
    /\ input.Y = Text(<<"G", "T", "A", "C", "C", "G", "T", "C", "A">>)
    /\ Size(output.lcs) = 4

\* The step of the walk after the k-th call is a step from a cell with a
\* positive value whose two characters differ
MismatchStep(t, path, k) ==
    /\ t.table[coord(t, path[k][1], path[k][2])] > 0
    /\ t.X[path[k][1] - 1] # t.Y[path[k][2] - 1]

\* The values left of and above the cell of the k-th call
LeftOf(t, path, k) == t.table[coord(t, path[k][1], path[k][2] - 1)]
AboveOf(t, path, k) == t.table[coord(t, path[k][1] - 1, path[k][2])]

\* C20 as stated: from a cell with a positive value and differing
\* characters the walk continues at (i, j-1) when the two neighbours are equal
\* (and when the left one is larger), and at (i-1, j) only when table[i-1][j]
\* is strictly larger.
C20_TieGoesAlongRow ==
    op = "assemble_lcs" =>
        \A k \in 1..(Len(output.path) - 1) :
            MismatchStep(input.t, output.path, k) =>
                output.path[k + 1] =
                    IF AboveOf(input.t, output.path, k) > LeftOf(input.t, output.path, k)
                    THEN <<output.path[k][1] - 1, output.path[k][2]>>
                    ELSE <<output.path[k][1], output.path[k][2] - 1>>

\* C20 amended: from a cell with a positive value and differing characters
\* the walk continues at (i, j-1) only when table[i][j-1] is strictly larger
\* than table[i-1][j]; when the two neighbours are equal (and when the upper
\* one is larger) it continues at (i-1, j).
C20_TieGoesUpColumn ==
    op = "assemble_lcs" =>
        \A k \in 1..(Len(output.path) - 1) :
            MismatchStep(input.t, output.path, k) =>
                output.path[k + 1] =
                    IF LeftOf(input.t, output.path, k) > AboveOf(input.t, output.path, k)
                    THEN <<output.path[k][1], output.path[k][2] - 1>>
                    ELSE <<output.path[k][1] - 1, output.path[k][2]>>

\* A walk that met equal neighbours at a cell with differing characters and
\* went up, and met a larger left neighbour at another and went left
C20_Witness ==
    /\ op = "assemble_lcs"
    /\ \E k \in 1..(Len(output.path) - 1) :
          /\ MismatchStep(input.t, output.path, k)
          /\ LeftOf(input.t, output.path, k) = AboveOf(input.t, output.path, k)
          /\ output.path[k + 1] = <<output.path[k][1] - 1, output.path[k][2]>>
    /\ \E k \in 1..(Len(output.path) - 1) :
          /\ MismatchStep(input.t, output.path, k)
          /\ LeftOf(input.t, output.path, k) > AboveOf(input.t, output.path, k)
          /\ output.path[k + 1] = <<output.path[k][1], output.path[k][2] - 1>>

-----------------------------------------------------------------------------
(* The transform program (unnamed/part_001): the transform tables, the
   operations assembled from them and their application *)

\* struct Operation; apply_on is a character, DASH for '-' and NUL for the
\* character of a value-initialised Operation
DASH == -1
NUL == 0
Operation(type, apply_on) == [type |-> type, apply_on |-> apply_on]

\* The cell without its third candidate: the insert is never considered
transform_cell_without_insert(t, i, j) ==
    LET c1 == IF t.X[i - 1] = t.Y[j - 1]
              THEN [cost |-> t.cost[coord(t, i - 1, j - 1)] + t.cc,
                    op   |-> Operation("COPY", t.Y[j - 1])]
              ELSE [cost |-> t.cost[coord(t, i - 1, j - 1)] + t.cr,
                    op   |-> Operation("REPLACE", t.Y[j - 1])]
        c2 == IF (t.cost[coord(t, i - 1, j)] + t.cd) < c1.cost
              THEN [cost |-> t.cost[coord(t, i - 1, j)] + t.cd,
                    op   |-> Operation("DELETE", t.X[i - 1])]
              ELSE c1
    IN  c2

\* The cell whose delete takes the cost but leaves the operation recorded
transform_cell_delete_keeps_op(t, i, j) ==
    LET c1 == IF t.X[i - 1] = t.Y[j - 1]
              THEN [cost |-> t.cost[coord(t, i - 1, j - 1)] + t.cc,
                    op   |-> Operation("COPY", t.Y[j - 1])]
              ELSE [cost |-> t.cost[coord(t, i - 1, j - 1)] + t.cr,
                    op   |-> Operation("REPLACE", t.Y[j - 1])]
        c2 == IF (t.cost[coord(t, i - 1, j)] + t.cd) < c1.cost
              THEN [cost |-> t.cost[coord(t, i - 1, j)] + t.cd,
                    op   |-> c1.op]
              ELSE c1
        c3 == IF (t.cost[coord(t, i, j - 1)] + t.ci) < c2.cost
              THEN [cost |-> t.cost[coord(t, i, j - 1)] + t.ci,
                    op   |-> Operation("INSERT", t.Y[j - 1])]
              ELSE c2
    IN  c3

\* The cell whose delete also replaces a copy or replace of the same cost
transform_cell_delete_on_ties(t, i, j) ==
    LET c1 == IF t.X[i - 1] = t.Y[j - 1]
              THEN [cost |-> t.cost[coord(t, i - 1, j - 1)] + t.cc,
                    op   |-> Operation("COPY", t.Y[j - 1])]
              ELSE [cost |-> t.cost[coord(t, i - 1, j - 1)] + t.cr,
                    op   |-> Operation("REPLACE", t.Y[j - 1])]
        c2 == IF (t.cost[coord(t, i - 1, j)] + t.cd) <= c1.cost
              THEN [cost |-> t.cost[coord(t, i - 1, j)] + t.cd,
                    op   |-> Operation("DELETE", t.X[i - 1])]
              ELSE c1
        c3 == IF (t.cost[coord(t, i, j - 1)] + t.ci) < c2.cost
              THEN [cost |-> t.cost[coord(t, i, j - 1)] + t.ci,
                    op   |-> Operation("INSERT", t.Y[j - 1])]
              ELSE c2
    IN  c3

\* The cost and the operation compute_transform_tables gives the inner cell
\* (i, j): copy or replace first, then delete, then insert, each taken only
\* when strictly cheaper
transform_cell(t, i, j) ==
    LET c1 == IF t.X[i - 1] = t.Y[j - 1]
              THEN [cost |-> t.cost[coord(t, i - 1, j - 1)] + t.cc,
                    op   |-> Operation("COPY", t.Y[j - 1])]
              ELSE [cost |-> t.cost[coord(t, i - 1, j - 1)] + t.cr,
                    op   |-> Operation("REPLACE", t.Y[j - 1])]
        c2 == IF (t.cost[coord(t, i - 1, j)] + t.cd) < c1.cost
              THEN [cost |-> t.cost[coord(t, i - 1, j)] + t.cd,
                    op   |-> Operation("DELETE", t.X[i - 1])]
              ELSE c1
        c3 == IF (t.cost[coord(t, i, j - 1)] + t.ci) < c2.cost
              THEN [cost |-> t.cost[coord(t, i, j - 1)] + t.ci,
                    op   |-> Operation("INSERT", t.Y[j - 1])]
              ELSE c2
    IN  c3

\* for (i = 1; i < height; i++): the left column of delete operations
RECURSIVE transform_column(_, _)
transform_column(t, i) ==
    IF i < t.height
    THEN transform_column(
             [t EXCEPT !.cost[coord(t, i, 0)] = i * t.cd,
                       !.op[coord(t, i, 0)] = Operation("DELETE", t.X[i - 1])],
             i + 1)
    ELSE t

\* for (j = 1; j < width; j++): the top row of insert operations
RECURSIVE transform_row(_, _)
transform_row(t, j) ==
    IF j < t.width
    THEN transform_row(
             [t EXCEPT !.cost[coord(t, 0, j)] = j * t.ci,
                       !.op[coord(t, 0, j)] = Operation("INSERT", t.Y[j - 1])],
             j + 1)
    ELSE t

\* for (j = 1; j < width; j++) of row i
RECURSIVE transform_inner(_, _, _)
transform_inner(t, i, j) ==
    IF j < t.width
    THEN LET c == transform_cell(t, i, j)
         IN  transform_inner([t EXCEPT !.cost[coord(t, i, j)] = c.cost,
                                       !.op[coord(t, i, j)] = c.op],
                             i, j + 1)
    ELSE t

\* for (i = 1; i < height; i++)
RECURSIVE transform_outer(_, _)
transform_outer(t, i) ==
    IF i < t.height
    THEN transform_outer(transform_inner(t, i, 1), i + 1)
    ELSE t

compute_transform_tables(t) ==
    LET t0 == [t EXCEPT !.cost[coord(t, 0, 0)] = 0,
                        !.op[coord(t, 0, 0)] = Operation("NOOP", DASH)]
    IN  transform_outer(transform_row(transform_column(t0, 1), 1), 1)

\* The constructor: copies of the strings and the costs, height, width, the
\* two value-initialised vectors, and then compute_transform_tables
TransformTable(str_x, str_y, cC, cR, cD, cI) ==
    LET height == Size(str_x) + 1
        width  == Size(str_y) + 1
    IN  compute_transform_tables(
            [height |-> height, width |-> width, X |-> str_x, Y |-> str_y,
             cc |-> cC, cr |-> cR, cd |-> cD, ci |-> cI,
             cost |-> [k \in 0..(height * width - 1) |-> 0],
             op   |-> [k \in 0..(height * width - 1) |-> Operation("COPY", NUL)]])

\* The vector of operations, first operation first, after the leading NOOP
RECURSIVE assemble_transformation(_, _, _)
assemble_transformation(t, i, j) ==
    LET o == t.op[coord(t, i, j)]
    IN  IF o.type = "NOOP"
        THEN <<Operation("NOOP", DASH)>>
        ELSE IF o.type = "COPY" \/ o.type = "REPLACE"
             THEN Append(assemble_transformation(t, i - 1, j - 1), o)
             ELSE IF o.type = "DELETE"
                  THEN Append(assemble_transformation(t, i - 1, j), o)
                  ELSE Append(assemble_transformation(t, i, j - 1), o)

\* The cells assemble_transformation(t, i, j) is called on, the first call
\* first: the recursion of assemble_transformation with the cell recorded at
\* each call
RECURSIVE assemble_transformation_path(_, _, _)
assemble_transformation_path(t, i, j) ==
    LET o == t.op[coord(t, i, j)]
    IN  IF o.type = "NOOP"
        THEN << <<i, j>> >>
        ELSE IF o.type = "COPY" \/ o.type = "REPLACE"
             THEN << <<i, j>> >> \o assemble_transformation_path(t, i - 1, j - 1)
             ELSE IF o.type = "DELETE"
                  THEN << <<i, j>> >> \o assemble_transformation_path(t, i - 1, j)
                  ELSE << <<i, j>> >> \o assemble_transformation_path(t, i, j - 1)

\* The loop of apply_transformation, from op_vector.rbegin() to
\* op_vector.rend(): k runs from the last operation down to the first
RECURSIVE apply_loop(_, _, _, _, _)
apply_loop(str_x, op_vector, k, z, pos) ==
    IF k < 1
    THEN z
    ELSE LET o == op_vector[k]
         IN  IF o.type = "COPY"
             THEN apply_loop(str_x, op_vector, k - 1, push_back(z, str_x[pos]), pos + 1)
             ELSE IF o.type = "REPLACE"
             THEN apply_loop(str_x, op_vector, k - 1, push_back(z, o.apply_on), pos + 1)
             ELSE IF o.type = "INSERT"
             THEN apply_loop(str_x, op_vector, k - 1, push_back(z, o.apply_on), pos)
             ELSE IF o.type = "DELETE"
             THEN apply_loop(str_x, op_vector, k - 1, z, pos + 1)
             ELSE apply_loop(str_x, op_vector, k - 1, z, pos)

apply_transformation(str_x, op_vector) ==
    apply_loop(str_x, op_vector, Len(op_vector), <<>>, 0)

-----------------------------------------------------------------------------
(* The transform program: calls on two strings and a cost tuple, and main *)

\* The strings the transform tables are built from
TransformStrings == UNION {Strings(n) : n \in 0..MaxTransLen}

\* The costs of the book, as main defines them
cost_copy == -1
cost_replace == 1
cost_delete == 2
cost_insert == 2

\* The cost tuples (copy, replace, delete, insert) the tables are built with:
\* those of main and others with a free or charged copy, a replace cheaper or
\* dearer than a delete and an insert, and unequal delete and insert
CostTuples ==
    ({cost_copy, 0} \X {cost_replace, 3} \X {1, cost_delete} \X {1, cost_insert})

\* One pass of the body of main's loop on any two strings and costs:
\* the table, the operations and the transformed string
CallTransform ==
    /\ op = "init"
    /\ pc = "idle"
    /\ \E str_x \in TransformStrings, str_y \in TransformStrings, c \in CostTuples :
          LET t   == TransformTable(str_x, str_y, c[1], c[2], c[3], c[4])
              ops == assemble_transformation(t, Size(str_x), Size(str_y))
          IN  /\ op' = "apply_transformation"
              /\ input' = [X |-> str_x, Y |-> str_y, costs |-> c]
              /\ output' = [t |-> t, ops |-> ops,
                            path |-> assemble_transformation_path(
                                         t, Size(str_x), Size(str_y)),
                            Z |-> apply_transformation(str_x, ops)]
    /\ UNCHANGED mainVars

\* main up to the loop: string_length and repeat_count are parsed, X and Y
\* are two random strings of string_length characters
MainStart ==
    /\ op = "init"
    /\ pc = "idle"
    /\ \E string_length \in 0..MaxTransLen, r \in 0..MaxRepeats :
          \E str_x \in Strings(string_length), str_y \in Strings(string_length) :
              /\ X' = str_x
              /\ Y' = str_y
              /\ repeats' = r
    /\ pc' = "loop"
    /\ iter' = 0
    /\ UNCHANGED <<Z, dummy_val, status, callVars>>

\* One iteration of the loop of main: Z is computed, the check
\* if (!Z.compare(Y)) ends the process with EXIT_FAILURE, and otherwise the
\* checksum takes Z[(100 * i) % string_length].  compare yields 0 exactly
\* when the two strings are equal.
MainIterate ==
    /\ pc = "loop"
    /\ iter < repeats
    /\ LET t   == TransformTable(X, Y, cost_copy, cost_replace, cost_delete, cost_insert)
           ops == assemble_transformation(t, Size(X), Size(Y))
           z   == apply_transformation(X, ops)
           compare == IF z = Y THEN 0 ELSE 1
           string_length == Size(X)
       IN  /\ Z' = z
           /\ IF compare = 0
              THEN /\ status' = "EXIT_FAILURE"
                   /\ pc' = "exited"
                   /\ UNCHANGED <<iter, dummy_val>>
              ELSE IF string_length = 0
              THEN /\ status' = "SIGFPE"
                   /\ pc' = "exited"
                   /\ UNCHANGED <<iter, dummy_val>>
              ELSE /\ dummy_val' = dummy_val + z[(100 * iter) % string_length]
                   /\ iter' = iter + 1
                   /\ UNCHANGED <<pc, status>>
    /\ UNCHANGED <<X, Y, repeats, callVars>>

\* The end of main: the timings and the checksum are printed
MainExit ==
    /\ pc = "loop"
    /\ iter >= repeats
    /\ status' = "EXIT_SUCCESS"
    /\ pc' = "exited"
    /\ UNCHANGED <<X, Y, Z, repeats, iter, dummy_val, callVars>>

NextTransform ==
    \/ CallTransform
    \/ MainStart
    \/ MainIterate
    \/ MainExit

SpecTransform == Init /\ [][NextTransform]_vars

-----------------------------------------------------------------------------
(* What the transform program must deliver *)

\* C1: for every X, Y and cost tuple, the operations assembled from
\* TransformTable(X, Y, costs) applied to X by apply_transformation yield a
\* string Z equal to Y.
C1_TransformRoundTrip ==
    op = "apply_transformation" => output.Z = input.Y

\* The loop of main has run its body at least once
MainHasIterated == iter > 0 \/ status = "EXIT_FAILURE"

\* C2: an iteration of the loop of main ends the process with a failure
\* status exactly when the transformed string Z differs from the target Y;
\* while Z equals Y the loop goes on, and the program ends with success.
C2_FailureExactlyOnMismatch ==
    /\ MainHasIterated => ((status = "EXIT_FAILURE") <=> (Z # Y))
    /\ (pc = "exited" /\ Z = Y) => status = "EXIT_SUCCESS"

\* The total costs of all sequences of operations that turn the first i
\* characters of X into the first j characters of Y, for the cells before
\* cell k in row order (acc) extended to every cell: a copy needs equal
\* characters, a replace puts another character, a delete drops one of X and
\* an insert adds one of Y
RECURSIVE SequenceCosts(_, _, _)
SequenceCosts(t, k, acc) ==
    IF k >= t.height * t.width
    THEN acc
    ELSE LET i == k \div t.width
             j == k % t.width
             diag == IF i > 0 /\ j > 0
                     THEN {c + (IF t.X[i - 1] = t.Y[j - 1] THEN t.cc ELSE t.cr) :
                              c \in acc[coord(t, i - 1, j - 1)]}
                     ELSE {}
             del  == IF i > 0 THEN {c + t.cd : c \in acc[coord(t, i - 1, j)]} ELSE {}
             insr == IF j > 0 THEN {c + t.ci : c \in acc[coord(t, i, j - 1)]} ELSE {}
             here == IF k = 0 THEN {0} ELSE diag \cup del \cup insr
         IN  SequenceCosts(t, k + 1, [c \in 0..k |-> IF c = k THEN here ELSE acc[c]])

\* The least cost of a sequence, per cell
MinimumCosts(t) ==
    LET all == SequenceCosts(t, 0, <<>>)
    IN  [k \in DOMAIN all |-> CHOOSE m \in all[k] : \A c \in all[k] : m <= c]

\* o is the last operation of a sequence of least cost for cell (i, j)
LastOfMinimum(t, least, i, j, o) ==
    \/ /\ i = 0 /\ j = 0
       /\ o = Operation("NOOP", DASH)
    \/ /\ i > 0 /\ j > 0 /\ t.X[i - 1] = t.Y[j - 1]
       /\ o = Operation("COPY", t.Y[j - 1])
       /\ least[coord(t, i, j)] = least[coord(t, i - 1, j - 1)] + t.cc
    \/ /\ i > 0 /\ j > 0 /\ t.X[i - 1] # t.Y[j - 1]
       /\ o = Operation("REPLACE", t.Y[j - 1])
       /\ least[coord(t, i, j)] = least[coord(t, i - 1, j - 1)] + t.cr
    \/ /\ i > 0
       /\ o = Operation("DELETE", t.X[i - 1])
       /\ least[coord(t, i, j)] = least[coord(t, i - 1, j)] + t.cd
    \/ /\ j > 0
       /\ o = Operation("INSERT", t.Y[j - 1])
       /\ least[coord(t, i, j)] = least[coord(t, i, j - 1)] + t.ci

\* C12: after the construction of the transform tables cost[i][j] is the
\* least total cost over all sequences of copy, replace, delete and insert
\* operations that turn the first i characters of X into the first j
\* characters of Y, and op[i][j] is the last operation of such a sequence.
C12_CostIsMinimumOpIsLast ==
    op = "apply_transformation" =>
        LET t     == output.t
            least == MinimumCosts(t)
        IN  /\ t.X = input.X /\ t.Y = input.Y
            /\ t.height = Size(input.X) + 1
            /\ t.width = Size(input.Y) + 1
            /\ \A i \in 0..Size(input.X), j \in 0..Size(input.Y) :
                  /\ t.cost[coord(t, i, j)] = least[coord(t, i, j)]
                  /\ LastOfMinimum(t, least, i, j, t.op[coord(t, i, j)])

\* Tables of two full-length strings in which an inner cell was reached by
\* an insert, another by a delete and another by a copy
C12_Witness ==
    /\ op = "apply_transformation"
    /\ Size(input.X) = MaxTransLen
    /\ Size(input.Y) = MaxTransLen
    /\ \A type \in {"INSERT", "DELETE", "COPY"} :
          \E i \in 1..MaxTransLen, j \in 1..MaxTransLen :
              output.t.op[coord(output.t, i, j)].type = type


-----------------------------------------------------------------------------
(* The string matcher: StateTable and fa_string_matcher *)

\* Longest text given to the matcher
MaxTextLen == 4
\* Longest pattern given to the matcher
MaxPatLen == 3

\* std::min
min(a, b) == IF b < a THEN b ELSE a

\* std::string::substr: at most len characters of s from position pos
substr(s, pos, len) ==
    [k \in 0..(min(len, Size(s) - pos) - 1) |-> s[pos + k]]

\* The loop of the constructor over the characters of T: a character not
\* yet in char_index is given the next index
RECURSIVE unique_chars(_, _, _)
unique_chars(T, k, acc) ==
    IF k >= Size(T)
    THEN acc
    ELSE LET c == T[k] IN
         IF c \in DOMAIN acc.char_index
         THEN unique_chars(T, k + 1, acc)
         ELSE unique_chars(T, k + 1,
                  [char_index |-> [d \in DOMAIN acc.char_index \cup {c} |->
                                      IF d = c THEN acc.unique_index
                                      ELSE acc.char_index[d]],
                   index_char |-> [n \in 0..acc.unique_index |->
                                      IF n = acc.unique_index THEN c
                                      ELSE acc.index_char[n]],
                   unique_index |-> acc.unique_index + 1])

\* The test with the first i characters of Pka for its last i
state_prefix_found(t, Pka, pka_length, i) ==
    substr(t.pattern, 0, i) = substr(Pka, 0, i)

\* pattern.substr(0, i) == Pka.substr(pka_length - i, i)
state_suffix_found(t, Pka, pka_length, i) ==
    substr(t.pattern, 0, i) = substr(Pka, pka_length - i, i)

\* while (i > 0) { if (Pi is a suffix of Pka) break; i--; }
RECURSIVE state_while(_, _, _, _)
state_while(t, Pka, pka_length, i) ==
    IF i > 0
    THEN IF state_suffix_found(t, Pka, pka_length, i)
         THEN i
         ELSE state_while(t, Pka, pka_length, i - 1)
    ELSE i

\* The body of the two loops of compute_state_table: the value stored for
\* the state and the character key
state_cell(t, state, key) ==
    LET Pk  == substr(t.pattern, 0, state)
        Pka == push_back(Pk, key)
        pka_length == Size(Pka)
    IN  state_while(t, Pka, pka_length, min(pka_length, t.pattern_length))

\* for (const auto& [key, value] : char_index): one cell of the row of the
\* state per entry, in any order
state_row(t, state) ==
    [t EXCEPT !.next_state =
        [k \in DOMAIN t.next_state |->
            IF k \div t.width = state
            THEN state_cell(t, state, t.index_char[k % t.width])
            ELSE t.next_state[k]]]

\* for (state = 0; state < height; state++)
RECURSIVE state_loop(_, _)
state_loop(t, state) ==
    IF state < t.height
    THEN state_loop(state_row(t, state), state + 1)
    ELSE t

compute_state_table(t) == state_loop(t, 0)

\* StateTable::StateTable
StateTable(T, P) ==
    LET u == unique_chars(T, 0, [char_index |-> [d \in {} |-> 0], index_char |-> <<>>,
                                  unique_index |-> 0])
        height == Size(P) + 1
        width  == u.unique_index
    IN  compute_state_table(
            [pattern |-> P, pattern_length |-> Size(P),
             height |-> height, width |-> width,
             char_index |-> u.char_index, index_char |-> u.index_char,
             next_state |-> [k \in 0..(height * width - 1) |-> 0]])

\* StateTable::get_next_state
get_next_state(t, prev_state, prev_char) ==
    LET col == t.char_index[prev_char] IN t.next_state[coord(t, prev_state, col)]

\* A state one short of the pattern taken for the end of the pattern
matcher_accepts_early(t, state) == state >= t.pattern_length - 1

\* state == t.pattern_length
matcher_accepts(t, state) == state = t.pattern_length

\* The position after the match taken for its shift
shift_after_match(t, i) == i + 1

\* (i + 1) - t.pattern_length
shift_of(t, i) == (i + 1) - t.pattern_length

\* for (i = 0; i < T.size(); i++)
RECURSIVE fa_loop(_, _, _, _, _)
fa_loop(T, t, i, state, shifts) ==
    IF i < Size(T)
    THEN LET next == get_next_state(t, state, T[i]) IN
         fa_loop(T, t, i + 1, next,
                 IF matcher_accepts(t, next)
                 THEN push_back(shifts, shift_of(t, i))
                 ELSE shifts)
    ELSE shifts

fa_string_matcher(T, t) == fa_loop(T, t, 0, 0, <<>>)


-----------------------------------------------------------------------------
(* The matcher program as calls on a text and a pattern *)

\* The texts and the patterns the matcher is given
Texts == UNION {Strings(n) : n \in 0..MaxTextLen}
Patterns == UNION {Strings(n) : n \in 0..MaxPatLen}

CallStateTable ==
    /\ op = "init"
    /\ \E str_t \in Texts, str_p \in Patterns :
          /\ op' = "StateTable"
          /\ input' = [T |-> str_t, P |-> str_p]
          /\ output' = [t |-> StateTable(str_t, str_p)]
    /\ UNCHANGED mainVars

CallFaStringMatcher ==
    /\ op = "init"
    /\ \E str_t \in Texts, str_p \in Patterns :
          LET t == StateTable(str_t, str_p) IN
          /\ op' = "fa_string_matcher"
          /\ input' = [T |-> str_t, P |-> str_p]
          /\ output' = [t |-> t, shifts |-> fa_string_matcher(str_t, t)]
    /\ UNCHANGED mainVars

\* The strings of the book, which main keeps in a comment
CallBookMatcher ==
    /\ op = "init"
    /\ LET str_t == Text(<<"G", "T", "A", "A", "C", "A", "G", "T", "A", "A",
                           "A", "C", "G">>)
           str_p == Text(<<"A", "A", "C">>)
           t     == StateTable(str_t, str_p)
       IN  /\ op' = "book_matcher"
           /\ input' = [T |-> str_t, P |-> str_p]
           /\ output' = [t |-> t, shifts |-> fa_string_matcher(str_t, t)]
    /\ UNCHANGED mainVars

NextMatch ==
    \/ CallStateTable
    \/ CallFaStringMatcher
    \/ CallBookMatcher

SpecMatch == Init /\ [][NextMatch]_vars

-----------------------------------------------------------------------------
(* What the state table and the matcher must deliver *)

\* The characters occurring in s
CharsOf(s) == {s[k] : k \in DOMAIN s}

\* s ends with the string e
IsSuffix(e, s) ==
    /\ Size(e) <= Size(s)
    /\ \A k \in DOMAIN e : e[k] = s[Size(s) - Size(e) + k]

\* The length of the longest prefix of P that is a suffix of s
LongestPrefixSuffix(P, s) ==
    SetMax({k \in 0..Size(P) : IsSuffix(Prefix(P, k), s)})

\* C13: after StateTable(T, P), for every state s in 0..|P| and every
\* character c occurring in T, next_state[s][c] is the length of the longest
\* prefix of P that is a suffix of P[0..s) followed by c, and lies in 0..|P|.
C13_NextStateIsLongestPrefixSuffix ==
    op = "StateTable" =>
        LET t == output.t IN
        /\ t.height = Size(input.P) + 1
        /\ t.width = Cardinality(CharsOf(input.T))
        /\ DOMAIN t.char_index = CharsOf(input.T)
        /\ \A s \in 0..Size(input.P), c \in CharsOf(input.T) :
              /\ get_next_state(t, s, c) \in 0..Size(input.P)
              /\ get_next_state(t, s, c) =
                    LongestPrefixSuffix(input.P, push_back(Prefix(input.P, s), c))

\* A table of a longest pattern has been built in which some state falls
\* back to a shorter, non-empty prefix
C13_Witness ==
    /\ op = "StateTable"
    /\ Size(input.P) = MaxPatLen
    /\ \E s \in 1..Size(input.P), c \in CharsOf(input.T) :
          /\ get_next_state(output.t, s, c) > 0
          /\ get_next_state(output.t, s, c) <= s

\* The indices of T at which P occurs
OccurrencesOf(P, T) ==
    {k \in 0..(Size(T) - Size(P)) :
        \A m \in DOMAIN P : T[k + m] = P[m]}

\* C14: for every text T and non-empty pattern P, fa_string_matcher returns,
\* in increasing order, exactly the indices k with T[k..k+|P|) = P,
\* overlapping occurrences included.
C14_ShiftsAreTheOccurrences ==
    (op = "fa_string_matcher" /\ Size(input.P) > 0) =>
        /\ \A k \in DOMAIN output.shifts :
              k > 0 => output.shifts[k - 1] < output.shifts[k]
        /\ {output.shifts[k] : k \in DOMAIN output.shifts}
              = OccurrencesOf(input.P, input.T)

\* A pattern has been found at two places that overlap
C14_Witness ==
    /\ op = "fa_string_matcher"
    /\ Size(input.P) > 1
    /\ Size(output.shifts) >= 2
    /\ output.shifts[1] - output.shifts[0] < Size(input.P)

\* C15 as stated: for T = "GTAACAGTAAACG" and P = "AAC" the reported shifts
\* include index 3 and index 9.
C15_BookShiftsInclude3And9 ==
    op = "book_matcher" =>
        /\ \E k \in DOMAIN output.shifts : output.shifts[k] = 3
        /\ \E k \in DOMAIN output.shifts : output.shifts[k] = 9

\* C15 amended: for T = "GTAACAGTAAACG" and P = "AAC" the reported shifts
\* are exactly 2 and 9, in this order.
C15_BookShiftsAre2And9 ==
    op = "book_matcher" =>
        /\ Size(output.shifts) = 2
        /\ output.shifts[0] = 2
        /\ output.shifts[1] = 9

\* The book's text and pattern have been matched and shifts reported
C15_Witness ==
    /\ op = "book_matcher"
    /\ Size(input.T) = 13
    /\ input.P = Text(<<"A", "A", "C">>)
    /\ Size(output.shifts) > 0


-----------------------------------------------------------------------------
(* cryptography/euclid.cpp: euclid, and the modexp program that follows it *)

LONG_MAX == Pow2(LongBits - 1) - 1
LONG_MIN == 0 - Pow2(LongBits - 1)

\* Every value of the modelled long
Longs == LONG_MIN..LONG_MAX

\* The least LONG_MAX a build can have (a long has 32 bits or more)
LONG_MAX_32 == 2147483647

\* operator% of two longs, which truncates towards zero (b > 0)
long_rem(a, b) == IF a >= 0 THEN a % b ELSE 0 - ((0 - a) % b)

\* operator/ of two longs, which truncates towards zero (b > 0)
long_div(a, b) == IF a >= 0 THEN a \div b ELSE 0 - ((0 - a) \div b)

\* The coefficient with i_ and j_ taken one for the other
euclid_j_swapped(a, b, i_, j_) == j_ - long_div(a, b) * i_

\* j = i_ - (a / b) * j_
euclid_j(a, b, i_, j_) == i_ - long_div(a, b) * j_

\* euclid(a, b) with a long of the range -lmax-1..lmax.  A product or a
\* difference outside the range is undefined: ub is set and junk stands for
\* the value
RECURSIVE euclid(_, _, _, _)
euclid(a, b, lmax, junk) ==
    IF b = 0
    THEN [ub |-> FALSE, g |-> a, i |-> 1, j |-> 0]
    ELSE LET r    == euclid(b, long_rem(a, b), lmax, junk)
             i    == r.j
             prod == long_div(a, b) * r.j
             j    == euclid_j(a, b, r.i, r.j)
             over == prod \notin (0 - lmax - 1)..lmax \/ j \notin (0 - lmax - 1)..lmax
         IN  [ub |-> r.ub \/ over, g |-> r.g, i |-> i,
              j |-> IF over THEN junk ELSE j]

\* (z * z) % n and (z * z * x) % n: the product of the factors from left to
\* right, then the remainder.  A product outside the range of long and a
\* remainder by zero are undefined
RECURSIVE modexp_product(_, _, _, _)
modexp_product(factors, k, acc, lmax) ==
    IF k > Len(factors)
    THEN [over |-> FALSE, value |-> acc]
    ELSE IF acc * factors[k] \notin (0 - lmax - 1)..lmax
         THEN [over |-> TRUE, value |-> 0]
         ELSE modexp_product(factors, k + 1, acc * factors[k], lmax)

modexp_step(factors, n, lmax, junk) ==
    LET p == modexp_product(factors, 2, factors[1], lmax) IN
    IF n = 0
    THEN [over |-> p.over, div0 |-> TRUE, ret |-> junk]
    ELSE IF p.over
         THEN [over |-> TRUE, div0 |-> FALSE, ret |-> junk]
         ELSE [over |-> FALSE, div0 |-> FALSE, ret |-> long_rem(p.value, n)]

\* modular_exponentiation(x, d, n) for d >= 0 and n >= 0
RECURSIVE modular_exponentiation(_, _, _, _, _)
modular_exponentiation(x, d, n, lmax, junk) ==
    IF d = 0
    THEN [over |-> FALSE, div0 |-> FALSE, ret |-> 1]
    ELSE IF d % 2 = 0
         THEN LET r == modular_exponentiation(x, d \div 2, n, lmax, junk)
                  z == r.ret
                  m == modexp_step(<<z, z>>, n, lmax, junk)
              IN  [over |-> r.over \/ m.over, div0 |-> r.div0 \/ m.div0,
                   ret |-> m.ret]
         ELSE LET r == modular_exponentiation(x, (d - 1) \div 2, n, lmax, junk)
                  z == r.ret
                  m == modexp_step(<<z, z, x>>, n, lmax, junk)
              IN  [over |-> r.over \/ m.over, div0 |-> r.div0 \/ m.div0,
                   ret |-> m.ret]

\* A command-line argument as strtol sees it: one it cannot convert, or the
\* long it converts it to
Args ==
    {[parses |-> FALSE, value |-> 0]}
        \cup {[parses |-> TRUE, value |-> v] : v \in (0 - 1)..MaxArg}

\* get_long_param ends the process on an argument that does not convert or
\* is negative
get_long_param_exits(param) == ~param.parses \/ param.value < 0


-----------------------------------------------------------------------------
(* The euclid and modexp programs *)

\* euclid(integer_a, integer_b) on two parameters get_long_param lets pass
CallEuclid ==
    /\ op = "init"
    /\ \E a \in 0..LONG_MAX, b \in 0..LONG_MAX, junk \in Longs, faults \in BOOLEAN :
          LET r == euclid(a, b, LONG_MAX, junk)
          IN  /\ faults => r.ub
              /\ op' = "euclid"
              /\ input' = [a |-> a, b |-> b]
              /\ output' = IF faults
                           THEN [fault |-> TRUE, ub |-> TRUE, g |-> 0, i |-> 0, j |-> 0]
                           ELSE [fault |-> FALSE, ub |-> r.ub, g |-> r.g, i |-> r.i, j |-> r.j]
    /\ UNCHANGED mainVars

\* modular_exponentiation(integer_x, integer_d, integer_n) on three
\* parameters get_long_param lets pass.  An undefined product or remainder
\* either yields some value or ends the call
CallModularExponentiation ==
    /\ op = "init"
    /\ \E x \in 0..LONG_MAX, d \in 0..LONG_MAX, n \in 0..LONG_MAX,
          junk \in Longs, faults \in BOOLEAN :
          LET r == modular_exponentiation(x, d, n, LONG_MAX, junk)
          IN  /\ faults => (r.over \/ r.div0)
              /\ op' = "modular_exponentiation"
              /\ input' = [x |-> x, d |-> d, n |-> n]
              /\ output' = IF faults
                           THEN [fault |-> TRUE, over |-> r.over, div0 |-> r.div0, ret |-> 0]
                           ELSE [fault |-> FALSE, over |-> r.over, div0 |-> r.div0, ret |-> r.ret]
    /\ UNCHANGED mainVars

\* The example of main's comment, 'modexp 259 269 493', on the narrowest long
CallBookModExp ==
    /\ op = "init"
    /\ LET r == modular_exponentiation(259, 269, 493, LONG_MAX_32, 0)
       IN  /\ op' = "book_modexp"
           /\ input' = [x |-> 259, d |-> 269, n |-> 493]
           /\ output' = [fault |-> FALSE, over |-> r.over, div0 |-> r.div0, ret |-> r.ret]
    /\ UNCHANGED mainVars

\* The command lines given to modexp: argv[1..] of one to four arguments
ModexpCommandLines ==
    UNION {[1..k -> Args] : k \in 2..4}

\* main of modexp, from the test of argc to the exit
ModexpMain ==
    /\ op = "init"
    /\ \E argv \in ModexpCommandLines, junk \in Longs, faults \in BOOLEAN :
          LET argc == Len(argv) + 1
              rejected == \/ argc # 4
                          \/ \E k \in 1..3 : get_long_param_exits(argv[k])
              r == modular_exponentiation(argv[1].value, argv[2].value,
                                          argv[3].value, LONG_MAX, junk)
          IN  /\ faults => (~rejected /\ (r.over \/ r.div0))
              /\ op' = "modexp_main"
              /\ input' = [argc |-> argc, argv |-> argv]
              /\ output' =
                    IF rejected
                    THEN [status |-> "EXIT_FAILURE", div0 |-> FALSE, z |-> 0]
                    ELSE IF faults
                         THEN [status |-> IF r.div0 THEN "SIGFPE" ELSE "SIGABRT",
                               div0 |-> r.div0, z |-> 0]
                         ELSE [status |-> "EXIT_SUCCESS", div0 |-> r.div0, z |-> r.ret]
    /\ UNCHANGED mainVars

NextCrypto ==
    \/ CallEuclid
    \/ CallModularExponentiation
    \/ CallBookModExp
    \/ ModexpMain

SpecCrypto == Init /\ [][NextCrypto]_vars

-----------------------------------------------------------------------------
(* What euclid and modexp must deliver *)

\* d divides v
Divides(d, v) == \E q \in 0..v : v = d * q

\* The greatest common divisor of two non-negative integers (0 for 0 and 0)
GCD(a, b) ==
    IF a = 0 /\ b = 0
    THEN 0
    ELSE SetMax({d \in 1..max(a, b) : Divides(d, a) /\ Divides(d, b)})

\* (x^d) mod n by d multiplications
RECURSIVE PowMod(_, _, _)
PowMod(x, d, n) ==
    IF d = 0 THEN 1 % n ELSE (PowMod(x, d - 1, n) * (x % n)) % n

\* C16: for all non-negative a and b, euclid(a, b) returns (g, i, j) with
\* g = a*i + b*j and g the greatest common divisor of a and b, and
\* euclid(a, 0) = (a, 1, 0).
C16_EuclidGcdAndCoefficients ==
    op = "euclid" =>
        /\ ~output.fault
        /\ ~output.ub
        /\ output.g = input.a * output.i + input.b * output.j
        /\ output.g = GCD(input.a, input.b)
        /\ input.b = 0 => (output.g = input.a /\ output.i = 1 /\ output.j = 0)

\* euclid has recursed more than once on two numbers none of which divides
\* the other, and one coefficient is negative
C16_Witness ==
    /\ op = "euclid"
    /\ input.a > input.b
    /\ input.b > 1
    /\ input.a % input.b > 1
    /\ input.b % (input.a % input.b) # 0
    /\ output.i < 0 \/ output.j < 0

\* C17: for all x >= 0, d >= 0 and n >= 1, modular_exponentiation(x, d, n)
\* returns (x^d) mod n, and for x = 259, d = 269, n = 493 it returns
\* (259^269) mod 493.
C17_ModExpIsPowerModN ==
    /\ (op = "modular_exponentiation" /\ input.n >= 1) =>
          /\ ~output.fault
          /\ ~output.over
          /\ output.ret = PowMod(input.x, input.d, input.n)
    /\ op = "book_modexp" =>
          /\ ~output.over
          /\ output.ret = PowMod(input.x, input.d, input.n)

\* C18: for every three arguments that parse as non-negative integers, n = 0
\* included, modexp computes without a division or modulo by zero and ends
\* with success; only a wrong argument count, an unparsable argument or a
\* negative value leads to a failure exit.
C18_ModexpNeverFaults ==
    op = "modexp_main" =>
        LET accepted == /\ input.argc = 4
                        /\ \A k \in 1..3 : /\ input.argv[k].parses
                                           /\ input.argv[k].value >= 0
        IN  /\ accepted => (~output.div0 /\ output.status = "EXIT_SUCCESS")
            /\ ~accepted => output.status = "EXIT_FAILURE"


-----------------------------------------------------------------------------
(* The sort program: get_array_size, get_repeat_count, verify_sorted, main *)

\* The largest array_size get_array_size lets pass
MaxArraySize == 100000000

\* The loop of verify_sorted from index i on
RECURSIVE verify_loop(_, _, _, _)
verify_loop(A, n, i, previous_value) ==
    IF i < n
    THEN IF A[i] < previous_value
         THEN FALSE
         ELSE verify_loop(A, n, i + 1, A[i])
    ELSE TRUE

\* verify_sorted(A, n): A[0] is read whatever n is, outside the vector when
\* it is empty
verify_sorted(A, n, junk) ==
    [oob |-> 0 \notin DOMAIN A,
     ret |-> verify_loop(A, n, 1, At(A, 0, junk))]

\* The sort called by the loop of main for the program's part
sort_of(part, arr, array_size, junk) ==
    IF part = "selection"
    THEN [A |-> selection_sort(arr, array_size), oob |-> FALSE]
    ELSE IF part = "insertion"
         THEN [A |-> insertion_sort(arr, array_size), oob |-> FALSE]
         ELSE merge_sort(arr, 0, array_size - 1, junk)

\* dummy_val += arr[i % array_size]: a remainder by zero and a sum outside
\* int are undefined
checksum(st, A, i, array_size, junk) ==
    IF array_size = 0
    THEN [st EXCEPT !.div0 = TRUE, !.dummy_val = junk]
    ELSE LET sum == st.dummy_val + A[i % array_size] IN
         IF sum \in Ints
         THEN [st EXCEPT !.dummy_val = sum]
         ELSE [st EXCEPT !.over = TRUE, !.dummy_val = junk]

\* for (i = 0; i < repeats; i++): fill the array, sort it, verify it and add
\* one of its values to dummy_val.  random is what std::generate fills in,
\* the same at every pass since the seed is set anew
RECURSIVE sort_loop(_, _, _, _, _, _, _)
sort_loop(part, random, array_size, repeat_count, i, st, junk) ==
    IF i < repeat_count /\ ~st.failed
    THEN LET s == sort_of(part, random, array_size, junk)
             v == verify_sorted(s.A, array_size, junk)
             seen == [st EXCEPT !.oob = st.oob \/ s.oob \/ v.oob]
         IN  IF ~v.ret
             THEN [seen EXCEPT !.failed = TRUE]
             ELSE sort_loop(part, random, array_size, repeat_count, i + 1,
                            checksum(seen, s.A, i, array_size, junk), junk)
    ELSE st

\* The three loops of main, one after the other
sort_loops(random, array_size, repeat_count, junk) ==
    LET st0 == [dummy_val |-> 0, oob |-> FALSE, div0 |-> FALSE,
                over |-> FALSE, failed |-> FALSE]
        st1 == sort_loop("selection", random, array_size, repeat_count, 0, st0, junk)
        st2 == sort_loop("insertion", random, array_size, repeat_count, 0, st1, junk)
    IN  sort_loop("merge", random, array_size, repeat_count, 0, st2, junk)

\* argv[1] as std::strtol converts it
SizeArgs ==
    {[parses |-> FALSE, value |-> 0]}
        \cup {[parses |-> TRUE, value |-> v] :
                 v \in ((0 - 1)..MaxMainArr) \cup {MaxArraySize + 1}}

\* argv[2] as std::strtol converts it
RepeatArgs ==
    {[parses |-> FALSE, value |-> 0]}
        \cup {[parses |-> TRUE, value |-> v] : v \in (0 - 1)..MaxRepeats}

\* get_array_size ends the process on an argument that does not convert or
\* is above the limit
get_array_size_exits(param) == ~param.parses \/ param.value > MaxArraySize

\* get_repeat_count ends the process on an argument that does not convert
get_repeat_count_exits(param) == ~param.parses

\* What std::generate(arr.begin(), arr.end(), std::rand) can fill in
RandomVectors(n) == [0..(n - 1) -> 0..INT_MAX]

\* main of sort, from the test of argc to the exit.  std::vector<int>
\* arr(array_size) throws on a negative array_size, which ends the process
\* by std::terminate; undefined behaviour either goes on or ends the process
SortMain ==
    /\ op = "init"
    /\ \E argc \in 2..4, size \in SizeArgs, count \in RepeatArgs,
          junk \in Ints, faults \in BOOLEAN :
          LET rejected == \/ argc # 3
                          \/ get_array_size_exits(size)
                          \/ get_repeat_count_exits(count)
              array_size == size.value
              throws == array_size < 0
          IN  \E random \in (IF rejected \/ throws THEN {<<>>}
                             ELSE RandomVectors(array_size)) :
              LET st == sort_loops(random, array_size, count.value, junk)
                  runs == ~rejected /\ ~throws
              IN  /\ faults => (runs /\ (st.oob \/ st.div0 \/ st.over))
                  /\ op' = "sort_main"
                  /\ input' = [argc |-> argc, array_size |-> size,
                               repeat_count |-> count, random |-> random]
                  /\ output' =
                        IF rejected
                        THEN [status |-> "EXIT_FAILURE", oob |-> FALSE,
                              div0 |-> FALSE, failed |-> FALSE, dummy_val |-> 0]
                        ELSE IF throws
                        THEN [status |-> "SIGABRT", oob |-> FALSE,
                              div0 |-> FALSE, failed |-> FALSE, dummy_val |-> 0]
                        ELSE IF faults
                        THEN [status |-> IF st.oob THEN "SIGSEGV"
                                         ELSE IF st.div0 THEN "SIGFPE" ELSE "SIGABRT",
                              oob |-> st.oob, div0 |-> st.div0,
                              failed |-> st.failed, dummy_val |-> 0]
                        ELSE [status |-> IF st.failed THEN "EXIT_FAILURE"
                                         ELSE "EXIT_SUCCESS",
                              oob |-> st.oob, div0 |-> st.div0,
                              failed |-> st.failed, dummy_val |-> st.dummy_val]
    /\ UNCHANGED mainVars

NextSortMain ==
    \/ SortMain

SpecSortMain == Init /\ [][NextSortMain]_vars

\* C19: for every pair (array_size, repeat_count) that get_array_size and
\* get_repeat_count let pass, 0 and negative sizes included, the sort program
\* reads no element outside its array, takes no remainder by zero and ends
\* with success unless a verify_sorted check fails.
C19_SortProgramNeverFaults ==
    (/\ op = "sort_main"
     /\ input.argc = 3
     /\ ~get_array_size_exits(input.array_size)
     /\ ~get_repeat_count_exits(input.repeat_count)) =>
        /\ ~output.oob
        /\ ~output.div0
        /\ IF output.failed THEN output.status = "EXIT_FAILURE"
                            ELSE output.status = "EXIT_SUCCESS"


-----------------------------------------------------------------------------
(* The order in which the candidates of a transform cell are preferred *)

\* The costs of the three candidates of the inner cell (i, j), from the
\* finished table
DiagonalCandidate(t, i, j) ==
    t.cost[coord(t, i - 1, j - 1)] + (IF t.X[i - 1] = t.Y[j - 1] THEN t.cc ELSE t.cr)
DeleteCandidate(t, i, j) == t.cost[coord(t, i - 1, j)] + t.cd
InsertCandidate(t, i, j) == t.cost[coord(t, i, j - 1)] + t.ci

\* C21: for every interior cell the recorded operation is COPY (equal
\* characters) or REPLACE (otherwise) unless the delete candidate is strictly
\* smaller, and is INSERT only if the insert candidate is strictly smaller
\* than the best of the other two: of candidates of equal cost copy/replace
\* wins over delete and delete over insert.
C21_TieBreakOrder ==
    op = "apply_transformation" =>
        LET t == output.t IN
        \A i \in 1..(t.height - 1), j \in 1..(t.width - 1) :
            LET diag == DiagonalCandidate(t, i, j)
                del  == DeleteCandidate(t, i, j)
                ins  == InsertCandidate(t, i, j)
                type == t.op[coord(t, i, j)].type
            IN  /\ (type = "INSERT") <=> (ins < diag /\ ins < del)
                /\ (type = "DELETE") <=> (del < diag /\ ~(ins < del))
                /\ (type \in {"COPY", "REPLACE"}) <=> (~(del < diag) /\ ~(ins < diag))
                /\ (type = "COPY") => t.X[i - 1] = t.Y[j - 1]
                /\ (type = "REPLACE") => t.X[i - 1] # t.Y[j - 1]

\* A table has a cell where copy or replace won a tie with delete and a cell
\* where delete won a tie with insert
C21_Witness ==
    /\ op = "apply_transformation"
    /\ \E i \in 1..(output.t.height - 1), j \in 1..(output.t.width - 1) :
          /\ DiagonalCandidate(output.t, i, j) = DeleteCandidate(output.t, i, j)
          /\ output.t.op[coord(output.t, i, j)].type \in {"COPY", "REPLACE"}
    /\ \E i \in 1..(output.t.height - 1), j \in 1..(output.t.width - 1) :
          /\ DeleteCandidate(output.t, i, j) = InsertCandidate(output.t, i, j)
          /\ output.t.op[coord(output.t, i, j)].type = "DELETE"


-----------------------------------------------------------------------------
(* compute_lcs_table and compute_transform_tables, one loop pass at a time *)

\* The strings of the tables whose construction is followed
FillStrings == UNION {Strings(n) : n \in 0..MaxFillLen}

\* The loops with the inner cells filled before the top row
loop_after_inner_first(loop) ==
    IF loop = "column" THEN "inner" ELSE IF loop = "inner" THEN "row" ELSE "done"

\* The loop that follows a loop of compute_lcs_table and of
\* compute_transform_tables: the left column, the top row, the inner cells
loop_after(loop) ==
    IF loop = "column" THEN "row" ELSE IF loop = "row" THEN "inner" ELSE "done"

\* The position at which a loop starts; the zero column and row of the LCS
\* table start at 0 (first = 0), the delete column and insert row of the
\* transform tables at 1 (first = 1)
loop_start(loop, first) ==
    IF loop = "inner" THEN [i |-> 1, j |-> 1]
    ELSE IF loop = "row" THEN [i |-> 0, j |-> first]
    ELSE [i |-> first, j |-> 0]

\* The state of a construction on entering the next loop
enter_loop(f, first) ==
    LET next == loop_after(f.loop)
        at   == loop_start(next, first)
    IN  [f EXCEPT !.loop = next, !.i = at.i, !.j = at.j]

\* The state of a construction after the write of cell (i, j)
written(f, t, i, j) == [f EXCEPT !.t = t, !.writes = Append(f.writes, <<i, j>>)]

\* LCSTable::LCSTable up to the call of compute_lcs_table
LcsFillStart ==
    /\ op = "init"
    /\ \E str_x \in FillStrings, str_y \in FillStrings :
          LET height == Size(str_x) + 1
              width  == Size(str_y) + 1
          IN  /\ op' = "compute_lcs_table"
              /\ input' = [X |-> str_x, Y |-> str_y]
              /\ output' = [t |-> [height |-> height, width |-> width,
                                   X |-> str_x, Y |-> str_y,
                                   table |-> [k \in 0..(height * width - 1) |-> 0]],
                            loop |-> "column", i |-> 0, j |-> 0, writes |-> <<>>]
    /\ UNCHANGED mainVars

\* for (i = 0; i < height; i++) table[coord(i, 0)] = 0
LcsFillColumn ==
    /\ op = "compute_lcs_table"
    /\ output.loop = "column"
    /\ LET f == output  t == f.t IN
       output' = IF f.i < t.height
                 THEN [written(f, [t EXCEPT !.table[coord(t, f.i, 0)] = 0], f.i, 0)
                          EXCEPT !.i = f.i + 1]
                 ELSE enter_loop(f, 0)
    /\ UNCHANGED <<op, input, mainVars>>

\* for (j = 0; j < width; j++) table[coord(0, j)] = 0
LcsFillRow ==
    /\ op = "compute_lcs_table"
    /\ output.loop = "row"
    /\ LET f == output  t == f.t IN
       output' = IF f.j < t.width
                 THEN [written(f, [t EXCEPT !.table[coord(t, 0, f.j)] = 0], 0, f.j)
                          EXCEPT !.j = f.j + 1]
                 ELSE enter_loop(f, 0)
    /\ UNCHANGED <<op, input, mainVars>>

\* The two nested loops over the inner cells: one cell, or the end of a row,
\* or the end of the loops
LcsFillInner ==
    /\ op = "compute_lcs_table"
    /\ output.loop = "inner"
    /\ LET f == output  t == f.t IN
       output' = IF f.i < t.height
                 THEN IF f.j < t.width
                      THEN [written(f, [t EXCEPT !.table[coord(t, f.i, f.j)] =
                                                      lcs_cell(t, f.i, f.j)], f.i, f.j)
                               EXCEPT !.j = f.j + 1]
                      ELSE [f EXCEPT !.i = f.i + 1, !.j = 1]
                 ELSE enter_loop(f, 0)
    /\ UNCHANGED <<op, input, mainVars>>

\* TransformTable::TransformTable with the costs of main, and the first two
\* assignments of compute_transform_tables, to cell (0, 0)
TransformFillStart ==
    /\ op = "init"
    /\ \E str_x \in FillStrings, str_y \in FillStrings :
          LET height == Size(str_x) + 1
              width  == Size(str_y) + 1
              t == [height |-> height, width |-> width, X |-> str_x, Y |-> str_y,
                    cc |-> cost_copy, cr |-> cost_replace,
                    cd |-> cost_delete, ci |-> cost_insert,
                    cost |-> [k \in 0..(height * width - 1) |-> 0],
                    op   |-> [k \in 0..(height * width - 1) |-> Operation("COPY", NUL)]]
          IN  /\ op' = "compute_transform_tables"
              /\ input' = [X |-> str_x, Y |-> str_y]
              /\ output' = [t |-> [t EXCEPT !.cost[coord(t, 0, 0)] = 0,
                                            !.op[coord(t, 0, 0)] = Operation("NOOP", DASH)],
                            loop |-> "column", i |-> 1, j |-> 0,
                            writes |-> << <<0, 0>> >>]
    /\ UNCHANGED mainVars

\* for (i = 1; i < height; i++): the left column of delete operations
TransformFillColumn ==
    /\ op = "compute_transform_tables"
    /\ output.loop = "column"
    /\ LET f == output  t == f.t IN
       output' = IF f.i < t.height
                 THEN [written(f, [t EXCEPT !.cost[coord(t, f.i, 0)] = f.i * t.cd,
                                            !.op[coord(t, f.i, 0)] =
                                                Operation("DELETE", t.X[f.i - 1])],
                               f.i, 0)
                          EXCEPT !.i = f.i + 1]
                 ELSE enter_loop(f, 1)
    /\ UNCHANGED <<op, input, mainVars>>

\* for (j = 1; j < width; j++): the top row of insert operations
TransformFillRow ==
    /\ op = "compute_transform_tables"
    /\ output.loop = "row"
    /\ LET f == output  t == f.t IN
       output' = IF f.j < t.width
                 THEN [written(f, [t EXCEPT !.cost[coord(t, 0, f.j)] = f.j * t.ci,
                                            !.op[coord(t, 0, f.j)] =
                                                Operation("INSERT", t.Y[f.j - 1])],
                               0, f.j)
                          EXCEPT !.j = f.j + 1]
                 ELSE enter_loop(f, 1)
    /\ UNCHANGED <<op, input, mainVars>>

\* The two nested loops over the inner cells: one cell with its up to three
\* assignments, or the end of a row, or the end of the loops
TransformFillInner ==
    /\ op = "compute_transform_tables"
    /\ output.loop = "inner"
    /\ LET f == output  t == f.t IN
       output' = IF f.i < t.height
                 THEN IF f.j < t.width
                      THEN LET c == transform_cell(t, f.i, f.j) IN
                           [written(f, [t EXCEPT !.cost[coord(t, f.i, f.j)] = c.cost,
                                                 !.op[coord(t, f.i, f.j)] = c.op],
                                    f.i, f.j)
                               EXCEPT !.j = f.j + 1]
                      ELSE [f EXCEPT !.i = f.i + 1, !.j = 1]
                 ELSE enter_loop(f, 1)
    /\ UNCHANGED <<op, input, mainVars>>

NextFill ==
    \/ LcsFillStart
    \/ LcsFillColumn
    \/ LcsFillRow
    \/ LcsFillInner
    \/ TransformFillStart
    \/ TransformFillColumn
    \/ TransformFillRow
    \/ TransformFillInner

SpecFill == Init /\ [][NextFill]_vars


-----------------------------------------------------------------------------
(* The order of the writes of a construction *)

\* A table is under construction or has just been constructed
Filling == op \in {"compute_lcs_table", "compute_transform_tables"}

\* The table the constructor ends with
FinishedTable ==
    IF op = "compute_lcs_table"
    THEN LCSTable(input.X, input.Y)
    ELSE TransformTable(input.X, input.Y,
                        cost_copy, cost_replace, cost_delete, cost_insert)

\* Cell c holds, in the table under construction, what it holds in the end
HoldsFinalValue(c) ==
    LET k == coord(output.t, c[1], c[2]) IN
    IF op = "compute_lcs_table"
    THEN output.t.table[k] = FinishedTable.table[k]
    ELSE /\ output.t.cost[k] = FinishedTable.cost[k]
         /\ output.t.op[k] = FinishedTable.op[k]

\* The up, left and up-left neighbours of a cell
NeighboursOf(c) == {<<c[1] - 1, c[2]>>, <<c[1], c[2] - 1>>, <<c[1] - 1, c[2] - 1>>}

\* C22: during the construction of the LCS table and of the transform
\* tables every interior cell is written only after its up, left and up-left
\* neighbours have received their final values, and no cell is modified
\* again after an interior cell that depends on it has been computed.
C22_NeighboursFinalBeforeCell ==
    Filling =>
        /\ \A k \in 1..Len(output.writes) :
              LET c == output.writes[k] IN
              (c[1] >= 1 /\ c[2] >= 1) =>
                  \A nb \in NeighboursOf(c) :
                      /\ \E m \in 1..(k - 1) : output.writes[m] = nb
                      /\ \A m \in (k + 1)..Len(output.writes) : output.writes[m] # nb
                      /\ HoldsFinalValue(nb)
        /\ output.loop = "done" => output.t = FinishedTable

\* The construction of an LCS table with the most inner cells has ended,
\* each of its cells written
C22_Witness ==
    /\ op = "compute_lcs_table"
    /\ output.loop = "done"
    /\ output.t.height = MaxFillLen + 1
    /\ output.t.width = MaxFillLen + 1
    /\ \A i \in 0..MaxFillLen, j \in 0..MaxFillLen :
          \E k \in 1..Len(output.writes) : output.writes[k] = <<i, j>>


-----------------------------------------------------------------------------
(* What a search leaves of its array *)

\* C23: for every array A of length n >= 1 and every x, at the return of
\* sentinel_linear_search the working array is element for element what it
\* was at entry, and the caller's array is unchanged by each of the six
\* searches.
C23_ArraysLeftAsFound ==
    (op \in (LinearSearches \cup BinarySearches) /\ input.n >= 1) =>
        /\ output.arr = input.A
        /\ op = "sentinel_linear_search" =>
              /\ ~output.fault
              /\ Size(output.A) = input.n
              /\ \A k \in 0..(input.n - 1) : output.A[k] = input.A[k]

\* The sentinel search has returned from an array whose last element is not
\* the search value, which it had overwritten
C23_Witness ==
    /\ op = "sentinel_linear_search"
    /\ input.n = MaxSearchLen
    /\ input.A[input.n - 1] # input.x
    /\ ~output.fault


-----------------------------------------------------------------------------
(* The reads of merge *)

\* C24: merge never reads its buffers B and C outside their n1+1 and n2+1
\* elements (i <= n1 and j <= n2 throughout the merge loop), for every input,
\* arrays holding the sentinel value INT_MAX included.
C24_MergeReadsInsideBuffers ==
    op = "merge_sort" => ~output.oob


-----------------------------------------------------------------------------
(* The reads of assemble_lcs *)

\* C25: in both variants of assemble_lcs every table element read during
\* the walk from (m, n) has a flat index within 0..(m+1)*(n+1)-1, every
\* string index read is X[i-1], Y[j-1] with i >= 1 and j >= 1, and no
\* neighbour cell is read when i = 0 or j = 0.
C25_WalkReadsInsideTable ==
    op \in {"assemble_lcs", "assemble_lcs_l"} =>
        /\ output.reads.table \subseteq 0..((input.i + 1) * (input.j + 1) - 1)
        /\ \A k \in output.reads.strings : k >= 0
        /\ output.reads.border = {}


-----------------------------------------------------------------------------
(* The cost of the assembled transformation *)

\* The cost of one operation of a table: 0 for the NOOP
CostOf(t, o) ==
    IF o.type = "COPY" THEN t.cc
    ELSE IF o.type = "REPLACE" THEN t.cr
    ELSE IF o.type = "DELETE" THEN t.cd
    ELSE IF o.type = "INSERT" THEN t.ci
    ELSE 0

\* The total cost of the first k operations of a vector
RECURSIVE TotalCost(_, _, _)
TotalCost(t, ops, k) ==
    IF k = 0 THEN 0 ELSE TotalCost(t, ops, k - 1) + CostOf(t, ops[k])

\* C26: for all X, Y and cost tuples the operations returned by
\* assemble_transformation(t, m, n) have a total cost equal to t.cost[m][n];
\* the walk visits only cells inside the table and ends at the NOOP of cell
\* (0, 0).
C26_AssembledCostIsTableCost ==
    op = "apply_transformation" =>
        LET t == output.t
            m == Size(input.X)
            n == Size(input.Y)
        IN  /\ TotalCost(t, output.ops, Len(output.ops)) = t.cost[coord(t, m, n)]
            /\ \A k \in 1..Len(output.path) :
                  /\ output.path[k][1] \in 0..m
                  /\ output.path[k][2] \in 0..n
            /\ output.path[1] = <<m, n>>
            /\ output.path[Len(output.path)] = <<0, 0>>
            /\ t.op[coord(t, 0, 0)].type = "NOOP"
            /\ Len(output.ops) = Len(output.path)
            /\ \A k \in 1..Len(output.ops) : (output.ops[k].type = "NOOP") <=> (k = 1)

\* A transformation of two longest strings has been assembled that holds a
\* delete, an insert and a copy or replace
C26_Witness ==
    /\ op = "apply_transformation"
    /\ Size(input.X) = MaxTransLen
    /\ Size(input.Y) = MaxTransLen
    /\ \E k \in 1..Len(output.ops) : output.ops[k].type = "DELETE"
    /\ \E k \in 1..Len(output.ops) : output.ops[k].type = "INSERT"
    /\ \E k \in 1..Len(output.ops) : output.ops[k].type \in {"COPY", "REPLACE"}


-----------------------------------------------------------------------------
(* The products of modular_exponentiation *)

\* C27: for all non-negative x, d and n >= 1 that fit a long, the products
\* z*z and z*z*x computed in modular_exponentiation stay within the range of
\* the signed machine word, so the value returned is never altered by
\* wrap-around.
C27_ProductsFitLong ==
    (op = "modular_exponentiation" /\ input.n >= 1) =>
        /\ ~output.over
        /\ ~output.fault


-----------------------------------------------------------------------------
(* The LCS programs: get_string_length and main *)

\* The largest string_length get_string_length lets pass
MaxStringLength == 40000

\* The factor of i in the checksum index of the newer program
ChecksumStride == 100

\* argv[1] as std::strtol converts it
LengthArgs ==
    {[parses |-> FALSE, value |-> 0]}
        \cup {[parses |-> TRUE, value |-> v] :
                 v \in ((0 - 1)..MaxMainStr) \cup {MaxStringLength + 1}}

\* get_string_length ends the process on an argument that does not convert
\* or is above the limit
get_string_length_exits(param) == ~param.parses \/ param.value > MaxStringLength

\* operator[] of a std::string: the position size() holds the terminating
\* null character, a position beyond it is undefined and yields junk
char_at(str, pos, junk) ==
    IF pos \in DOMAIN str THEN str[pos] ELSE IF pos = Size(str) THEN NUL ELSE junk

\* dummy_val += lcs[(stride * i) % string_length] for i = 0..repeat_count-1,
\* with the positions read; a remainder by zero is undefined
RECURSIVE lcs_checksum(_, _, _, _, _, _, _)
lcs_checksum(lcs, string_length, repeat_count, stride, i, st, junk) ==
    IF i < repeat_count
    THEN IF string_length = 0
         THEN lcs_checksum(lcs, string_length, repeat_count, stride, i + 1,
                  [st EXCEPT !.div0 = TRUE, !.dummy_val = junk], junk)
         ELSE LET pos == (stride * i) % string_length IN
              lcs_checksum(lcs, string_length, repeat_count, stride, i + 1,
                  [st EXCEPT !.reads = Append(st.reads, pos),
                             !.oob = st.oob \/ pos > Size(lcs),
                             !.dummy_val = st.dummy_val + char_at(lcs, pos, junk)],
                  junk)
    ELSE st

\* main of an LCS program from the test of argc to the exit; stride is the
\* factor of i in its checksum index, 100 in the newer program and 1 in the
\* older one.  generate_random_alphanumeric_string throws on a negative
\* length, which ends the process by std::terminate; undefined behaviour
\* either goes on or ends the process
LcsMain ==
    /\ op = "init"
    /\ \E stride \in {ChecksumStride, 1}, argc \in 2..4, length \in LengthArgs,
          count \in RepeatArgs, junk \in Chars, faults \in BOOLEAN :
          LET rejected == \/ argc # 3
                          \/ get_string_length_exits(length)
                          \/ get_repeat_count_exits(count)
              string_length == length.value
              throws == string_length < 0
              runs == ~rejected /\ ~throws
          IN  \E str_x \in (IF runs THEN Strings(string_length) ELSE {<<>>}),
                 str_y \in (IF runs THEN Strings(string_length) ELSE {<<>>}) :
              LET t   == LCSTable(str_x, str_y)
                  lcs == assemble_lcs(t, Size(str_x), Size(str_y))
                  st  == lcs_checksum(lcs, string_length, count.value, stride, 0,
                             [reads |-> <<>>, oob |-> FALSE, div0 |-> FALSE,
                              dummy_val |-> 0], junk)
              IN  /\ faults => (runs /\ (st.oob \/ st.div0))
                  /\ op' = "lcs_main"
                  /\ input' = [stride |-> stride, argc |-> argc,
                               string_length |-> length,
                               repeat_count |-> count, X |-> str_x, Y |-> str_y]
                  /\ output' =
                        IF rejected
                        THEN [status |-> "EXIT_FAILURE", lcs |-> <<>>, reads |-> <<>>,
                              oob |-> FALSE, div0 |-> FALSE, dummy_val |-> 0]
                        ELSE IF throws
                        THEN [status |-> "SIGABRT", lcs |-> <<>>, reads |-> <<>>,
                              oob |-> FALSE, div0 |-> FALSE, dummy_val |-> 0]
                        ELSE [status |-> IF ~faults THEN "EXIT_SUCCESS"
                                         ELSE IF st.div0 THEN "SIGFPE" ELSE "SIGSEGV",
                              lcs |-> lcs, reads |-> st.reads, oob |-> st.oob,
                              div0 |-> st.div0,
                              dummy_val |-> IF faults THEN 0 ELSE st.dummy_val]
    /\ UNCHANGED mainVars

NextLcsMain ==
    \/ LcsMain

SpecLcsMain == Init /\ [][NextLcsMain]_vars

\* C28: in the loops of the LCS programs the checksum read
\* lcs[(100 * i) % string_length] (lcs[i % string_length] in the older one)
\* uses an index smaller than or equal to the length of the reconstructed
\* LCS, for every string_length >= 1, every two generated strings of that
\* length and every repeat i.
C28_ChecksumReadsInsideLcs ==
    (/\ op = "lcs_main"
     /\ input.argc = 3
     /\ ~get_string_length_exits(input.string_length)
     /\ ~get_repeat_count_exits(input.repeat_count)
     /\ input.string_length.value >= 1) =>
        /\ ~output.oob
        /\ \A k \in 1..Len(output.reads) : output.reads[k] <= Size(output.lcs)

=============================================================================
